---- MODULE Spec2Model ----
(***************************************************************************)
(* ddl-lock-analyzer: the rule-based prediction engine                     *)
(* (internal/predictor) and the foreign-key dependency resolver            *)
(* (internal/fkresolver).                                                  *)
(*                                                                         *)
(* Go strings that the code inspects character by character (EqualFold,    *)
(* ToUpper, HasPrefix, Contains, the VARCHAR regexp, qualifiedName and     *)
(* splitQualifiedName) are sequences of one-character strings.  Strings   *)
(* that are only compared for equality or copied are TLA+ strings; the     *)
(* non-ASCII dash and arrow of the rule texts are written -- and ->.       *)
(* A nil pointer is a record without the pointee's fields (NilMeta,        *)
(* NilCol).  A condition evaluates to "T", "F" or, where Go would panic on *)
(* a nil dereference, "P".                                                 *)
(***************************************************************************)
EXTENDS Integers, Sequences, FiniteSets, TLC

(***************************************************************************)
(* Bounds of the model.                                                    *)
(***************************************************************************)
\* longest column list of a TableMeta handed to Predict
MaxColumns == 1

\* most constraints in a catalogue of the resolver
MaxFKs == 3

\* largest depth limit given to a resolver
MaxDepthBound == 2

\* longest action list handed to DetermineLockImpact on its own
MaxActions == 2

\* longest name handed to splitQualifiedName on its own
MaxNameLen == 4

(***************************************************************************)
(* Character-level string functions (Go package strings, ASCII range).     *)
(***************************************************************************)
LowerLetters ==
  <<"a", "b", "c", "d", "e", "f", "g", "h", "i", "j", "k", "l", "m",
    "n", "o", "p", "q", "r", "s", "t", "u", "v", "w", "x", "y", "z">>

UpperLetters ==
  <<"A", "B", "C", "D", "E", "F", "G", "H", "I", "J", "K", "L", "M",
    "N", "O", "P", "Q", "R", "S", "T", "U", "V", "W", "X", "Y", "Z">>

DigitChars == <<"0", "1", "2", "3", "4", "5", "6", "7", "8", "9">>

\* the characters that occur in the strings of the model
PlainChars == {" ", "(", ")", "'", ",", ".", "_"}

Chars ==
  {LowerLetters[i] : i \in 1..Len(LowerLetters)}
    \cup {UpperLetters[i] : i \in 1..Len(UpperLetters)}
    \cup {DigitChars[i] : i \in 1..Len(DigitChars)}
    \cup PlainChars

\* unicode.ToUpper on the characters of the model
UpperMap ==
  [c \in Chars |->
     IF \E i \in 1..Len(LowerLetters) : LowerLetters[i] = c
     THEN UpperLetters[CHOOSE i \in 1..Len(LowerLetters) : LowerLetters[i] = c]
     ELSE c]

UpperChar(c) == UpperMap[c]

ToUpper(s) == [i \in 1..Len(s) |-> UpperChar(s[i])]

EqualFold(s, t) ==
  /\ Len(s) = Len(t)
  /\ \A i \in 1..Len(s) : UpperChar(s[i]) = UpperChar(t[i])

HasPrefix(s, prefix) ==
  /\ Len(s) >= Len(prefix)
  /\ SubSeq(s, 1, Len(prefix)) = prefix

Contains(s, substr) ==
  \E i \in 0..(Len(s) - Len(substr)) : SubSeq(s, i + 1, i + Len(substr)) = substr

DigitSet == {DigitChars[i] : i \in 1..Len(DigitChars)}

IsDigit(c) == c \in DigitSet

DigitMap == [c \in DigitSet |-> (CHOOSE i \in 1..Len(DigitChars) : DigitChars[i] = c) - 1]

DigitValue(c) == DigitMap[c]

RECURSIVE Atoi(_)
Atoi(ds) ==
  IF Len(ds) = 0 THEN 0
  ELSE 10 * Atoi(SubSeq(ds, 1, Len(ds) - 1)) + DigitValue(ds[Len(ds)])

\* the literals the code compares against
StrInnoDB == <<"I", "n", "n", "o", "D", "B">>
StrVarcharOpen == <<"v", "a", "r", "c", "h", "a", "r", "(">>
StrGENERATED == <<"G", "E", "N", "E", "R", "A", "T", "E", "D">>
StrSTORED_GENERATED ==
  <<"S", "T", "O", "R", "E", "D", " ", "G", "E", "N", "E", "R", "A", "T", "E", "D">>
StrVIRTUAL_GENERATED ==
  <<"V", "I", "R", "T", "U", "A", "L", " ", "G", "E", "N", "E", "R", "A", "T", "E", "D">>
StrENUM == <<"E", "N", "U", "M">>
StrSET == <<"S", "E", "T">>
StrHASH == <<"H", "A", "S", "H">>
StrKEY == <<"K", "E", "Y">>
StrLINEAR_HASH == <<"L", "I", "N", "E", "A", "R", " ", "H", "A", "S", "H">>
StrLINEAR_KEY == <<"L", "I", "N", "E", "A", "R", " ", "K", "E", "Y">>
StrFULLTEXT == <<"F", "U", "L", "L", "T", "E", "X", "T">>

\* varcharLenRegex = (?i)varchar\((\d+)\): the end of the digit run that
\* starts at position i (i - 1 when s[i] is no digit)
RECURSIVE DigitRunEnd(_, _)
DigitRunEnd(s, i) ==
  IF i <= Len(s) /\ IsDigit(s[i]) THEN DigitRunEnd(s, i + 1) ELSE i - 1

\* the regexp matches at position i: "varchar(" in any case, one or more
\* digits, ")"
VarcharMatchAt(s, i) ==
  /\ i + Len(StrVarcharOpen) - 1 <= Len(s)
  /\ EqualFold(SubSeq(s, i, i + Len(StrVarcharOpen) - 1), StrVarcharOpen)
  /\ LET d == i + Len(StrVarcharOpen)
         e == DigitRunEnd(s, d)
     IN  /\ e >= d
         /\ e + 1 <= Len(s)
         /\ s[e + 1] = ")"

extractVarcharLength(colType) ==
  LET starts == {i \in 1..Len(colType) : VarcharMatchAt(colType, i)}
  IN  IF starts = {} THEN -1
      ELSE LET i == CHOOSE j \in starts : \A k \in starts : j <= k
               d == i + Len(StrVarcharOpen)
           IN  Atoi(SubSeq(colType, d, DigitRunEnd(colType, d)))

(***************************************************************************)
(* internal/meta: the values of the enumerations.                          *)
(***************************************************************************)
AlgorithmInstant == "INSTANT"
AlgorithmInplace == "INPLACE"
AlgorithmCopy == "COPY"
Algorithms == {AlgorithmInstant, AlgorithmInplace, AlgorithmCopy}

LockNone == "NONE"
LockShared == "SHARED"
LockExclusive == "EXCLUSIVE"
LockLevels == {LockNone, LockShared, LockExclusive}

RiskLow == "LOW"
RiskMedium == "MEDIUM"
RiskHigh == "HIGH"
RiskCritical == "CRITICAL"
RiskLevels == {RiskLow, RiskMedium, RiskHigh, RiskCritical}

\* a nil *meta.TableMeta and a nil *meta.ColumnMeta
NilMeta == [present |-> FALSE]
NilCol == [found |-> FALSE]

(***************************************************************************)
(* The rule table.  Condition names the condition function of the rule     *)
(* (RuleCondition below evaluates it).                                     *)
(***************************************************************************)
columnRules ==
  <<
    \* rules_column.go:17-28
    [ActionType |-> "ADD_COLUMN",
     Description |-> "ADD COLUMN (auto-increment)",
     Condition |-> "condAddColumnAutoIncrement",
     Algorithm |-> "INPLACE", Lock |-> "SHARED", TableRebuild |-> TRUE,
     Notes |-> <<"Auto-increment column requires ALGORITHM=INPLACE with LOCK=SHARED">>,
     Warnings |-> <<"SHARED lock -- DML writes blocked during column addition",
                "Table rebuild required -- INPLACE ADD COLUMN with auto-increment">>],
    \* rules_column.go:31-45
    [ActionType |-> "ADD_COLUMN",
     Description |-> "ADD COLUMN (STORED generated)",
     Condition |-> "condAddColumnStored",
     Algorithm |-> "COPY", Lock |-> "SHARED", TableRebuild |-> TRUE,
     Notes |-> <<>>,
     Warnings |-> <<"STORED generated column requires ALGORITHM=COPY",
                "SHARED lock -- DML writes blocked during operation",
                "Table rebuild required -- server must evaluate expression for each row">>],
    \* rules_column.go:50-64
    [ActionType |-> "ADD_COLUMN",
     Description |-> "ADD COLUMN (VIRTUAL generated, partitioned table)",
     Condition |-> "condAddColumnVirtualPartitioned",
     Algorithm |-> "COPY", Lock |-> "SHARED", TableRebuild |-> TRUE,
     Notes |-> <<>>,
     Warnings |-> <<"VIRTUAL generated column on partitioned table requires ALGORITHM=COPY",
                "SHARED lock -- DML writes blocked during operation",
                "Table rebuild required">>],
    \* rules_column.go:68-78
    [ActionType |-> "ADD_COLUMN",
     Description |-> "ADD COLUMN (VIRTUAL generated)",
     Condition |-> "condAddColumnVirtual",
     Algorithm |-> "INSTANT", Lock |-> "NONE", TableRebuild |-> FALSE,
     Notes |-> <<"VIRTUAL generated column -- INSTANT for non-partitioned tables (MySQL 8.0+)">>,
     Warnings |-> <<>>],
    \* rules_column.go:80-90
    [ActionType |-> "ADD_COLUMN",
     Description |-> "ADD COLUMN (trailing, NULLABLE)",
     Condition |-> "condAddColumnTrailingNullable",
     Algorithm |-> "INSTANT", Lock |-> "NONE", TableRebuild |-> FALSE,
     Notes |-> <<"INSTANT algorithm available (MySQL 8.0.12+)",
                "No table rebuild required",
                "DML operations are not blocked">>,
     Warnings |-> <<>>],
    \* rules_column.go:92-102
    [ActionType |-> "ADD_COLUMN",
     Description |-> "ADD COLUMN (non-trailing, NULLABLE)",
     Condition |-> "condAddColumnNonTrailingNullable",
     Algorithm |-> "INSTANT", Lock |-> "NONE", TableRebuild |-> FALSE,
     Notes |-> <<"INSTANT algorithm available (MySQL 8.0.29+)",
                "No table rebuild required">>,
     Warnings |-> <<>>],
    \* rules_column.go:105-118
    [ActionType |-> "ADD_COLUMN",
     Description |-> "ADD COLUMN (trailing, NOT NULL)",
     Condition |-> "condAddColumnTrailingNotNull",
     Algorithm |-> "INSTANT", Lock |-> "NONE", TableRebuild |-> FALSE,
     Notes |-> <<"INSTANT algorithm available (MySQL 8.0.12+)",
                "NOT NULL column requires a DEFAULT value (explicit or implicit)">>,
     Warnings |-> <<>>],
    \* rules_column.go:121-134
    [ActionType |-> "ADD_COLUMN",
     Description |-> "ADD COLUMN (non-trailing, NOT NULL)",
     Condition |-> "condAddColumnNonTrailingNotNull",
     Algorithm |-> "INSTANT", Lock |-> "NONE", TableRebuild |-> FALSE,
     Notes |-> <<"INSTANT algorithm available (MySQL 8.0.29+)",
                "NOT NULL column requires a DEFAULT value (explicit or implicit)">>,
     Warnings |-> <<>>],
    \* rules_column.go:141-153
    [ActionType |-> "DROP_COLUMN",
     Description |-> "DROP COLUMN (STORED generated)",
     Condition |-> "condDropColumnStored",
     Algorithm |-> "INPLACE", Lock |-> "NONE", TableRebuild |-> TRUE,
     Notes |-> <<"Dropping STORED generated column requires table rebuild">>,
     Warnings |-> <<"Table rebuild required -- may take significant time for large tables">>],
    \* rules_column.go:158-176
    [ActionType |-> "DROP_COLUMN",
     Description |-> "DROP COLUMN (VIRTUAL generated, partitioned table)",
     Condition |-> "condDropColumnVirtualPartitioned",
     Algorithm |-> "COPY", Lock |-> "SHARED", TableRebuild |-> TRUE,
     Notes |-> <<>>,
     Warnings |-> <<"VIRTUAL generated column on partitioned table requires ALGORITHM=COPY",
                "SHARED lock -- DML writes blocked during operation",
                "Table rebuild required">>],
    \* rules_column.go:180-191
    [ActionType |-> "DROP_COLUMN",
     Description |-> "DROP COLUMN (VIRTUAL generated)",
     Condition |-> "condDropColumnVirtual",
     Algorithm |-> "INSTANT", Lock |-> "NONE", TableRebuild |-> FALSE,
     Notes |-> <<"INSTANT algorithm for VIRTUAL generated column (MySQL 8.0+)">>,
     Warnings |-> <<>>],
    \* rules_column.go:195-203
    [ActionType |-> "DROP_COLUMN",
     Description |-> "DROP COLUMN",
     Condition |-> "alwaysMatch",
     Algorithm |-> "INSTANT", Lock |-> "NONE", TableRebuild |-> TRUE,
     Notes |-> <<"INSTANT algorithm available (MySQL 8.0.29+)",
                "Existing rows retain dropped column data until rewritten">>,
     Warnings |-> <<>>],
    \* rules_column.go:212-226
    [ActionType |-> "RENAME_COLUMN",
     Description |-> "RENAME COLUMN (referenced by foreign key)",
     Condition |-> "condRenameColumnReferencedByFK",
     Algorithm |-> "INPLACE", Lock |-> "NONE", TableRebuild |-> FALSE,
     Notes |-> <<"Column referenced by foreign key -- requires ALGORITHM=INPLACE (INSTANT not available)">>,
     Warnings |-> <<>>],
    \* rules_column.go:229-237
    [ActionType |-> "RENAME_COLUMN",
     Description |-> "RENAME COLUMN",
     Condition |-> "alwaysMatch",
     Algorithm |-> "INSTANT", Lock |-> "NONE", TableRebuild |-> FALSE,
     Notes |-> <<"INSTANT algorithm available (MySQL 8.0.28+)">>,
     Warnings |-> <<>>],
    \* rules_column.go:242-250
    [ActionType |-> "ALTER_COLUMN_SET_DEFAULT",
     Description |-> "ALTER COLUMN SET DEFAULT",
     Condition |-> "alwaysMatch",
     Algorithm |-> "INSTANT", Lock |-> "NONE", TableRebuild |-> FALSE,
     Notes |-> <<"Metadata-only change">>,
     Warnings |-> <<>>],
    \* rules_column.go:251-259
    [ActionType |-> "ALTER_COLUMN_DROP_DEFAULT",
     Description |-> "ALTER COLUMN DROP DEFAULT",
     Condition |-> "alwaysMatch",
     Algorithm |-> "INSTANT", Lock |-> "NONE", TableRebuild |-> FALSE,
     Notes |-> <<"Metadata-only change">>,
     Warnings |-> <<>>]
  >>

modifyRules ==
  <<
    \* rules_modify.go:18-35
    [ActionType |-> "MODIFY_COLUMN",
     Description |-> "MODIFY COLUMN (generated column reorder)",
     Condition |-> "condModifyGeneratedReorder",
     Algorithm |-> "COPY", Lock |-> "SHARED", TableRebuild |-> TRUE,
     Notes |-> <<>>,
     Warnings |-> <<"Modifying generated column order requires ALGORITHM=COPY",
                "SHARED lock -- DML writes blocked during operation">>],
    \* rules_modify.go:37-66
    [ActionType |-> "MODIFY_COLUMN",
     Description |-> "MODIFY COLUMN (ENUM/SET extension)",
     Condition |-> "condModifyEnumSetExtension",
     Algorithm |-> "INSTANT", Lock |-> "NONE", TableRebuild |-> FALSE,
     Notes |-> <<"INSTANT when adding new members to the end of the list without changing storage size",
                "Adding members in the middle or changing storage size requires COPY">>,
     Warnings |-> <<>>],
    \* rules_modify.go:69-95
    [ActionType |-> "MODIFY_COLUMN",
     Description |-> "MODIFY COLUMN (VARCHAR extension)",
     Condition |-> "condModifyVarcharExtension",
     Algorithm |-> "INPLACE", Lock |-> "NONE", TableRebuild |-> FALSE,
     Notes |-> <<"VARCHAR extension within same length-byte boundary -- in-place, metadata-only",
                "Crossing the 255->256 byte boundary requires ALGORITHM=COPY (length byte changes from 1 to 2)">>,
     Warnings |-> <<>>],
    \* rules_modify.go:97-116
    [ActionType |-> "MODIFY_COLUMN",
     Description |-> "MODIFY COLUMN (NULL -> NOT NULL)",
     Condition |-> "condModifyNullToNotNull",
     Algorithm |-> "INPLACE", Lock |-> "NONE", TableRebuild |-> TRUE,
     Notes |-> <<"INPLACE algorithm with table rebuild (NULL -> NOT NULL conversion)",
                "Requires STRICT_ALL_TABLES or STRICT_TRANS_TABLES SQL mode">>,
     Warnings |-> <<"Table rebuild required -- data validation for NOT NULL constraint; fails if column contains NULL values">>],
    \* rules_modify.go:119-135
    [ActionType |-> "MODIFY_COLUMN",
     Description |-> "MODIFY COLUMN (NOT NULL -> NULL)",
     Condition |-> "condModifyNotNullToNull",
     Algorithm |-> "INPLACE", Lock |-> "NONE", TableRebuild |-> TRUE,
     Notes |-> <<"INPLACE algorithm with table rebuild (NOT NULL -> NULL conversion)">>,
     Warnings |-> <<"Table rebuild required -- may take significant time for large tables">>],
    \* rules_modify.go:138-159
    [ActionType |-> "MODIFY_COLUMN",
     Description |-> "MODIFY COLUMN (reorder columns)",
     Condition |-> "condModifyReorder",
     Algorithm |-> "INPLACE", Lock |-> "NONE", TableRebuild |-> TRUE,
     Notes |-> <<"Reordering columns requires table rebuild">>,
     Warnings |-> <<"Table rebuild required -- may take significant time for large tables">>],
    \* rules_modify.go:162-180
    [ActionType |-> "MODIFY_COLUMN",
     Description |-> "MODIFY COLUMN (type change)",
     Condition |-> "condModifyTypeChange",
     Algorithm |-> "COPY", Lock |-> "SHARED", TableRebuild |-> TRUE,
     Notes |-> <<>>,
     Warnings |-> <<"SHARED lock -- DML writes blocked during execution",
                "Table rebuild required -- full table copy",
                "Consider using pt-online-schema-change or gh-ost for large tables">>],
    \* rules_modify.go:183-192
    [ActionType |-> "MODIFY_COLUMN",
     Description |-> "MODIFY COLUMN (rebuild)",
     Condition |-> "alwaysMatch",
     Algorithm |-> "INPLACE", Lock |-> "NONE", TableRebuild |-> TRUE,
     Notes |-> <<"INPLACE table rebuild (same type re-specification)">>,
     Warnings |-> <<"Table rebuild required -- may take significant time for large tables">>],
    \* rules_modify.go:200-211
    [ActionType |-> "CHANGE_COLUMN",
     Description |-> "CHANGE COLUMN (rename only)",
     Condition |-> "condChangeColumnRenameOnly",
     Algorithm |-> "INSTANT", Lock |-> "NONE", TableRebuild |-> FALSE,
     Notes |-> <<"INSTANT algorithm available (MySQL 8.0.28+) -- rename only, same data type">>,
     Warnings |-> <<>>],
    \* rules_modify.go:214-226
    [ActionType |-> "CHANGE_COLUMN",
     Description |-> "CHANGE COLUMN (type change)",
     Condition |-> "alwaysMatch",
     Algorithm |-> "COPY", Lock |-> "SHARED", TableRebuild |-> TRUE,
     Notes |-> <<>>,
     Warnings |-> <<"SHARED lock -- DML writes blocked during execution",
                "Table rebuild required -- full table copy",
                "Consider using pt-online-schema-change or gh-ost for large tables">>]
  >>

indexRules ==
  <<
    \* rules_index.go:15-23
    [ActionType |-> "ADD_INDEX",
     Description |-> "ADD INDEX",
     Condition |-> "alwaysMatch",
     Algorithm |-> "INPLACE", Lock |-> "NONE", TableRebuild |-> FALSE,
     Notes |-> <<"Online index creation -- DML allowed during build">>,
     Warnings |-> <<>>],
    \* rules_index.go:25-33
    [ActionType |-> "ADD_UNIQUE_INDEX",
     Description |-> "ADD UNIQUE INDEX",
     Condition |-> "alwaysMatch",
     Algorithm |-> "INPLACE", Lock |-> "NONE", TableRebuild |-> FALSE,
     Notes |-> <<"Online index creation -- DML allowed during build">>,
     Warnings |-> <<>>],
    \* rules_index.go:35-46
    [ActionType |-> "ADD_FULLTEXT_INDEX",
     Description |-> "ADD FULLTEXT INDEX (first on table)",
     Condition |-> "condAddFulltextFirst",
     Algorithm |-> "INPLACE", Lock |-> "SHARED", TableRebuild |-> TRUE,
     Notes |-> <<"First FULLTEXT index may require table rebuild if no user-defined FTS_DOC_ID column">>,
     Warnings |-> <<"SHARED lock -- DML writes blocked during index creation",
                "Table rebuild may be required">>],
    \* rules_index.go:48-57
    [ActionType |-> "ADD_FULLTEXT_INDEX",
     Description |-> "ADD FULLTEXT INDEX",
     Condition |-> "alwaysMatch",
     Algorithm |-> "INPLACE", Lock |-> "SHARED", TableRebuild |-> FALSE,
     Notes |-> <<"FULLTEXT index creation requires SHARED lock">>,
     Warnings |-> <<"SHARED lock -- DML writes blocked during index creation">>],
    \* rules_index.go:60-69
    [ActionType |-> "ADD_SPATIAL_INDEX",
     Description |-> "ADD SPATIAL INDEX",
     Condition |-> "alwaysMatch",
     Algorithm |-> "INPLACE", Lock |-> "SHARED", TableRebuild |-> FALSE,
     Notes |-> <<"SPATIAL index creation requires at minimum LOCK=SHARED">>,
     Warnings |-> <<"SHARED lock -- DML writes blocked during index creation">>],
    \* rules_index.go:71-79
    [ActionType |-> "DROP_INDEX",
     Description |-> "DROP INDEX",
     Condition |-> "alwaysMatch",
     Algorithm |-> "INPLACE", Lock |-> "NONE", TableRebuild |-> FALSE,
     Notes |-> <<"Metadata-only change">>,
     Warnings |-> <<>>],
    \* rules_index.go:81-89
    [ActionType |-> "RENAME_INDEX",
     Description |-> "RENAME INDEX",
     Condition |-> "alwaysMatch",
     Algorithm |-> "INPLACE", Lock |-> "NONE", TableRebuild |-> FALSE,
     Notes |-> <<"Metadata-only change">>,
     Warnings |-> <<>>],
    \* rules_index.go:98-110
    [ActionType |-> "ADD_PRIMARY_KEY",
     Description |-> "ADD PRIMARY KEY",
     Condition |-> "alwaysMatch",
     Algorithm |-> "INPLACE", Lock |-> "NONE", TableRebuild |-> TRUE,
     Notes |-> <<"Table rebuild required -- clustered index recreation",
                "ALGORITHM=INPLACE is not permitted if columns must be converted to NOT NULL">>,
     Warnings |-> <<"Table rebuild required -- expensive operation for large tables">>],
    \* rules_index.go:113-125
    [ActionType |-> "DROP_PRIMARY_KEY",
     Description |-> "DROP PRIMARY KEY",
     Condition |-> "alwaysMatch",
     Algorithm |-> "COPY", Lock |-> "SHARED", TableRebuild |-> TRUE,
     Notes |-> <<>>,
     Warnings |-> <<"SHARED lock -- DML writes blocked during execution",
                "Table rebuild required -- full table copy",
                "Consider dropping and adding primary key in a single ALTER TABLE statement for INPLACE support">>],
    \* rules_index.go:134-146
    [ActionType |-> "ADD_FOREIGN_KEY",
     Description |-> "ADD FOREIGN KEY",
     Condition |-> "alwaysMatch",
     Algorithm |-> "COPY", Lock |-> "SHARED", TableRebuild |-> FALSE,
     Notes |-> <<"Default behavior with foreign_key_checks=ON (default): ALGORITHM=COPY",
                "ALGORITHM=INPLACE with LOCK=NONE is available only when foreign_key_checks=OFF">>,
     Warnings |-> <<"SHARED lock -- DML writes blocked during execution; set foreign_key_checks=OFF for INPLACE operation">>],
    \* rules_index.go:148-156
    [ActionType |-> "DROP_FOREIGN_KEY",
     Description |-> "DROP FOREIGN KEY",
     Condition |-> "alwaysMatch",
     Algorithm |-> "INPLACE", Lock |-> "NONE", TableRebuild |-> FALSE,
     Notes |-> <<"Metadata-only change">>,
     Warnings |-> <<>>]
  >>

tableRules ==
  <<
    \* rules_table.go:17-25
    [ActionType |-> "RENAME_TABLE",
     Description |-> "RENAME TABLE",
     Condition |-> "alwaysMatch",
     Algorithm |-> "INSTANT", Lock |-> "NONE", TableRebuild |-> FALSE,
     Notes |-> <<"Metadata-only change">>,
     Warnings |-> <<>>],
    \* rules_table.go:28-41
    [ActionType |-> "CHANGE_ENGINE",
     Description |-> "CHANGE ENGINE (same engine -- null rebuild)",
     Condition |-> "condChangeEngineSame",
     Algorithm |-> "INPLACE", Lock |-> "NONE", TableRebuild |-> TRUE,
     Notes |-> <<"Same engine -- table rebuild for defragmentation (equivalent to ALTER TABLE ... FORCE)">>,
     Warnings |-> <<>>],
    \* rules_table.go:44-60
    [ActionType |-> "CHANGE_ENGINE",
     Description |-> "CHANGE ENGINE (different engine)",
     Condition |-> "condChangeEngineDifferent",
     Algorithm |-> "COPY", Lock |-> "SHARED", TableRebuild |-> TRUE,
     Notes |-> <<>>,
     Warnings |-> <<"SHARED lock -- DML writes blocked during execution",
                "Engine conversion requires full table copy">>],
    \* rules_table.go:63-75
    [ActionType |-> "CONVERT_CHARACTER_SET",
     Description |-> "CONVERT CHARACTER SET",
     Condition |-> "alwaysMatch",
     Algorithm |-> "INPLACE", Lock |-> "SHARED", TableRebuild |-> TRUE,
     Notes |-> <<"INPLACE algorithm with table rebuild when character encoding differs">>,
     Warnings |-> <<"SHARED lock -- DML writes blocked during execution",
                "Table rebuild required if new character encoding differs from current">>],
    \* rules_table.go:78-86
    [ActionType |-> "CHANGE_ROW_FORMAT",
     Description |-> "CHANGE ROW_FORMAT",
     Condition |-> "alwaysMatch",
     Algorithm |-> "INPLACE", Lock |-> "NONE", TableRebuild |-> TRUE,
     Notes |-> <<"ROW_FORMAT change requires table rebuild">>,
     Warnings |-> <<>>],
    \* rules_table.go:89-97
    [ActionType |-> "CHANGE_KEY_BLOCK_SIZE",
     Description |-> "CHANGE KEY_BLOCK_SIZE",
     Condition |-> "alwaysMatch",
     Algorithm |-> "INPLACE", Lock |-> "NONE", TableRebuild |-> TRUE,
     Notes |-> <<"KEY_BLOCK_SIZE change requires table rebuild">>,
     Warnings |-> <<>>],
    \* rules_table.go:100-108
    [ActionType |-> "CHANGE_AUTO_INCREMENT",
     Description |-> "CHANGE AUTO_INCREMENT value",
     Condition |-> "alwaysMatch",
     Algorithm |-> "INPLACE", Lock |-> "NONE", TableRebuild |-> FALSE,
     Notes |-> <<"Only modifies the in-memory auto-increment counter, not the data file">>,
     Warnings |-> <<>>],
    \* rules_table.go:111-120
    [ActionType |-> "FORCE_REBUILD",
     Description |-> "ALTER TABLE ... FORCE (rebuild)",
     Condition |-> "alwaysMatch",
     Algorithm |-> "INPLACE", Lock |-> "NONE", TableRebuild |-> TRUE,
     Notes |-> <<"Online table rebuild -- equivalent to ALTER TABLE ... ENGINE=InnoDB">>,
     Warnings |-> <<"Table rebuild required -- may take significant time for large tables">>],
    \* rules_table.go:126-138
    [ActionType |-> "SPECIFY_CHARACTER_SET",
     Description |-> "SPECIFY CHARACTER SET",
     Condition |-> "alwaysMatch",
     Algorithm |-> "INPLACE", Lock |-> "NONE", TableRebuild |-> TRUE,
     Notes |-> <<"Changes the default character set for the table (does not convert existing columns)",
                "Rebuilds table if new character encoding differs from current",
                "Different from CONVERT TO CHARACTER SET which converts all existing columns">>,
     Warnings |-> <<>>],
    \* rules_table.go:143-151
    [ActionType |-> "SET_TABLE_STATS",
     Description |-> "SET TABLE STATISTICS",
     Condition |-> "alwaysMatch",
     Algorithm |-> "INPLACE", Lock |-> "NONE", TableRebuild |-> FALSE,
     Notes |-> <<"Metadata-only change -- modifies persistent statistics settings">>,
     Warnings |-> <<>>],
    \* rules_table.go:156-167
    [ActionType |-> "TABLE_ENCRYPTION",
     Description |-> "TABLE ENCRYPTION",
     Condition |-> "alwaysMatch",
     Algorithm |-> "COPY", Lock |-> "SHARED", TableRebuild |-> TRUE,
     Notes |-> <<>>,
     Warnings |-> <<"SHARED lock -- DML writes blocked during encryption change",
                "Table rebuild required -- full table copy for encryption/decryption">>]
  >>

partitionRules ==
  <<
    \* rules_partition.go:17-28
    [ActionType |-> "ADD_PARTITION",
     Description |-> "ADD PARTITION (HASH/KEY)",
     Condition |-> "condAddPartitionHashKey",
     Algorithm |-> "INPLACE", Lock |-> "SHARED", TableRebuild |-> FALSE,
     Notes |-> <<"HASH/KEY partition -- data is copied between partitions">>,
     Warnings |-> <<"SHARED lock -- DML writes blocked during partition addition">>],
    \* rules_partition.go:32-43
    [ActionType |-> "ADD_PARTITION",
     Description |-> "ADD PARTITION",
     Condition |-> "alwaysMatch",
     Algorithm |-> "INPLACE", Lock |-> "NONE", TableRebuild |-> FALSE,
     Notes |-> <<"INPLACE for RANGE/LIST partitions -- no data copying",
                "For HASH/KEY partitions: data is copied between partitions and requires LOCK=SHARED">>,
     Warnings |-> <<>>],
    \* rules_partition.go:47-58
    [ActionType |-> "DROP_PARTITION",
     Description |-> "DROP PARTITION (HASH/KEY)",
     Condition |-> "condDropPartitionHashKey",
     Algorithm |-> "INPLACE", Lock |-> "SHARED", TableRebuild |-> FALSE,
     Notes |-> <<"HASH/KEY partition -- data is redistributed between remaining partitions">>,
     Warnings |-> <<"SHARED lock -- DML writes blocked during partition drop",
                "Data in the partition will be permanently deleted">>],
    \* rules_partition.go:62-71
    [ActionType |-> "DROP_PARTITION",
     Description |-> "DROP PARTITION",
     Condition |-> "alwaysMatch",
     Algorithm |-> "INPLACE", Lock |-> "NONE", TableRebuild |-> FALSE,
     Notes |-> <<"Deletes data stored in the partition and drops it">>,
     Warnings |-> <<"Data in the partition will be permanently deleted">>],
    \* rules_partition.go:74-82
    [ActionType |-> "TRUNCATE_PARTITION",
     Description |-> "TRUNCATE PARTITION",
     Condition |-> "alwaysMatch",
     Algorithm |-> "INPLACE", Lock |-> "NONE", TableRebuild |-> FALSE,
     Notes |-> <<"Truncates data in the partition without dropping it">>,
     Warnings |-> <<>>],
    \* rules_partition.go:85-93
    [ActionType |-> "EXCHANGE_PARTITION",
     Description |-> "EXCHANGE PARTITION",
     Condition |-> "alwaysMatch",
     Algorithm |-> "INPLACE", Lock |-> "NONE", TableRebuild |-> FALSE,
     Notes |-> <<"Exchanges partition data with a non-partitioned table">>,
     Warnings |-> <<>>],
    \* rules_partition.go:96-105
    [ActionType |-> "COALESCE_PARTITION",
     Description |-> "COALESCE PARTITION",
     Condition |-> "alwaysMatch",
     Algorithm |-> "INPLACE", Lock |-> "SHARED", TableRebuild |-> FALSE,
     Notes |-> <<"Data is copied between partitions">>,
     Warnings |-> <<"SHARED lock -- DML writes blocked during partition coalescing">>],
    \* rules_partition.go:108-117
    [ActionType |-> "REORGANIZE_PARTITION",
     Description |-> "REORGANIZE PARTITION",
     Condition |-> "alwaysMatch",
     Algorithm |-> "INPLACE", Lock |-> "SHARED", TableRebuild |-> FALSE,
     Notes |-> <<"Data is copied between partitions">>,
     Warnings |-> <<"SHARED lock -- DML writes blocked during partition reorganization">>],
    \* rules_partition.go:120-128
    [ActionType |-> "REBUILD_PARTITION",
     Description |-> "REBUILD PARTITION",
     Condition |-> "alwaysMatch",
     Algorithm |-> "INPLACE", Lock |-> "SHARED", TableRebuild |-> FALSE,
     Notes |-> <<>>,
     Warnings |-> <<"SHARED lock -- DML writes blocked during partition rebuild">>],
    \* rules_partition.go:131-142
    [ActionType |-> "PARTITION_BY",
     Description |-> "PARTITION BY",
     Condition |-> "alwaysMatch",
     Algorithm |-> "COPY", Lock |-> "SHARED", TableRebuild |-> TRUE,
     Notes |-> <<>>,
     Warnings |-> <<"SHARED lock -- DML writes blocked during operation",
                "Table rebuild required -- partitioning structure change">>],
    \* rules_partition.go:146-157
    [ActionType |-> "REMOVE_PARTITIONING",
     Description |-> "REMOVE PARTITIONING",
     Condition |-> "alwaysMatch",
     Algorithm |-> "COPY", Lock |-> "SHARED", TableRebuild |-> TRUE,
     Notes |-> <<>>,
     Warnings |-> <<"SHARED lock -- DML writes blocked during operation",
                "Table rebuild required -- removing partitioning structure">>],
    \* rules_partition.go:164-172
    [ActionType |-> "CHECK_PARTITION",
     Description |-> "CHECK PARTITION",
     Condition |-> "alwaysMatch",
     Algorithm |-> "INPLACE", Lock |-> "NONE", TableRebuild |-> FALSE,
     Notes |-> <<"Partition validation -- read-only operation">>,
     Warnings |-> <<>>],
    \* rules_partition.go:175-187
    [ActionType |-> "OPTIMIZE_PARTITION",
     Description |-> "OPTIMIZE PARTITION",
     Condition |-> "alwaysMatch",
     Algorithm |-> "COPY", Lock |-> "SHARED", TableRebuild |-> TRUE,
     Notes |-> <<"Rebuilds entire table -- ALGORITHM and LOCK clauses are ignored by MySQL">>,
     Warnings |-> <<"SHARED lock -- DML writes blocked during optimization",
                "Table rebuild required -- entire table is rebuilt regardless of partition scope">>],
    \* rules_partition.go:189-197
    [ActionType |-> "REPAIR_PARTITION",
     Description |-> "REPAIR PARTITION",
     Condition |-> "alwaysMatch",
     Algorithm |-> "INPLACE", Lock |-> "NONE", TableRebuild |-> FALSE,
     Notes |-> <<"Partition repair operation">>,
     Warnings |-> <<>>],
    \* rules_partition.go:199-208
    [ActionType |-> "DISCARD_PARTITION_TABLESPACE",
     Description |-> "DISCARD PARTITION TABLESPACE",
     Condition |-> "alwaysMatch",
     Algorithm |-> "COPY", Lock |-> "EXCLUSIVE", TableRebuild |-> FALSE,
     Notes |-> <<"Only ALGORITHM=DEFAULT and LOCK=DEFAULT are permitted by MySQL">>,
     Warnings |-> <<"EXCLUSIVE lock -- no concurrent read or write access during tablespace discard">>],
    \* rules_partition.go:210-219
    [ActionType |-> "IMPORT_PARTITION_TABLESPACE",
     Description |-> "IMPORT PARTITION TABLESPACE",
     Condition |-> "alwaysMatch",
     Algorithm |-> "COPY", Lock |-> "EXCLUSIVE", TableRebuild |-> FALSE,
     Notes |-> <<"Only ALGORITHM=DEFAULT and LOCK=DEFAULT are permitted by MySQL">>,
     Warnings |-> <<"EXCLUSIVE lock -- no concurrent read or write access during tablespace import">>]
  >>
defaultRules ==
  columnRules \o modifyRules \o indexRules \o tableRules \o partitionRules

(***************************************************************************)
(* Helpers of the rule conditions (rules_modify.go, second part).          *)
(***************************************************************************)
B3(b) == IF b THEN "T" ELSE "F"

\* Go's a && b on three-valued results: b is evaluated only when a is true
And3(a, b) == IF a = "T" THEN b ELSE a

\* the first column whose name equals name in any case, or nil
findColumn(tm, name) ==
  IF ~tm.present THEN NilCol
  ELSE LET hits == {i \in 1..Len(tm.Columns) : EqualFold(tm.Columns[i].Name, name)}
       IN  IF hits = {} THEN NilCol
           ELSE LET i == CHOOSE j \in hits : \A k \in hits : j <= k
                IN  [found |-> TRUE,
                     Name |-> tm.Columns[i].Name,
                     ColumnType |-> tm.Columns[i].ColumnType,
                     IsNullable |-> tm.Columns[i].IsNullable,
                     Extra |-> tm.Columns[i].Extra]

isGeneratedColumn(col) ==
  IF col.found THEN B3(Contains(ToUpper(col.Extra), StrGENERATED)) ELSE "P"

isStoredGenerated(col) ==
  IF col.found THEN B3(Contains(ToUpper(col.Extra), StrSTORED_GENERATED)) ELSE "P"

isVirtualGenerated(col) ==
  IF col.found THEN B3(Contains(ToUpper(col.Extra), StrVIRTUAL_GENERATED)) ELSE "P"

\* IsNullable *bool: "unset" is the nil pointer
isNullablePtr(isNullable) == isNullable = "unset" \/ isNullable = "true"

isHashOrKeyPartition(partitionType) ==
  LET pt == ToUpper(partitionType)
  IN  pt = StrHASH \/ pt = StrKEY \/ pt = StrLINEAR_HASH \/ pt = StrLINEAR_KEY

hasFulltextIndex(tm) ==
  IF ~tm.present THEN FALSE
  ELSE \E i \in 1..Len(tm.Indexes) : EqualFold(tm.Indexes[i].IndexType, StrFULLTEXT)

isColumnReferencedByFK(colName, tm) ==
  IF ~tm.present THEN FALSE
  ELSE \E i \in 1..Len(tm.ReferencedBy) :
         \E j \in 1..Len(tm.ReferencedBy[i].ReferencedColumns) :
           EqualFold(tm.ReferencedBy[i].ReferencedColumns[j], colName)

isEnumOrSetType(colType) ==
  LET upper == ToUpper(colType)
  IN  HasPrefix(upper, StrENUM) \/ HasPrefix(upper, StrSET)

alwaysMatch(a, tm) == "T"

(***************************************************************************)
(* The condition functions of columnRules.                                 *)
(***************************************************************************)
condAddColumnAutoIncrement(a, tm) == B3(a.IsAutoIncrement)

condAddColumnStored(a, tm) == B3(a.GeneratedType = "STORED")

\* the partitioned-table rule reading the partition type, not the flag
condAddColumnVirtualPartitionType(a, tm) ==
  IF a.GeneratedType = "VIRTUAL" /\ tm.present THEN B3(tm.PartitionType # <<>>) ELSE "F"

condAddColumnVirtualPartitioned(a, tm) ==
  IF a.GeneratedType = "VIRTUAL" /\ tm.present THEN B3(tm.IsPartitioned) ELSE "F"

condAddColumnVirtual(a, tm) == B3(a.GeneratedType = "VIRTUAL")

condAddColumnTrailingNullable(a, tm) ==
  B3(a.Position = "" /\ isNullablePtr(a.IsNullable))

condAddColumnNonTrailingNullable(a, tm) ==
  B3(a.Position # "" /\ isNullablePtr(a.IsNullable))

condAddColumnTrailingNotNull(a, tm) ==
  B3(a.Position = "" /\ ~isNullablePtr(a.IsNullable))

\* the NOT NULL rule for a position hint that knows FIRST only
condAddColumnFirstNotNull(a, tm) ==
  B3(a.Position = "FIRST" /\ ~isNullablePtr(a.IsNullable))

condAddColumnNonTrailingNotNull(a, tm) ==
  B3(a.Position # "" /\ ~isNullablePtr(a.IsNullable))

condDropColumnStored(a, tm) ==
  LET col == findColumn(tm, a.ColumnName)
  IN  And3(B3(col.found), isStoredGenerated(col))

condDropColumnVirtualPartitioned(a, tm) ==
  IF ~tm.present THEN "F"
  ELSE IF ~tm.IsPartitioned THEN "F"
  ELSE LET col == findColumn(tm, a.ColumnName)
       IN  And3(B3(col.found), isVirtualGenerated(col))

condDropColumnVirtual(a, tm) ==
  LET col == findColumn(tm, a.ColumnName)
  IN  And3(B3(col.found), isVirtualGenerated(col))

condRenameColumnReferencedByFK(a, tm) ==
  LET colName == IF a.OldColumnName = <<>> THEN a.ColumnName ELSE a.OldColumnName
  IN  B3(isColumnReferencedByFK(colName, tm))

(***************************************************************************)
(* The condition functions of modifyRules.                                 *)
(***************************************************************************)
condModifyGeneratedReorder(a, tm) ==
  IF a.Position = "" THEN "F"
  ELSE LET col == findColumn(tm, a.ColumnName)
       IN  And3(B3(col.found), isGeneratedColumn(col))

condModifyEnumSetExtension(a, tm) ==
  LET newType == ToUpper(a.ColumnType)
      col == findColumn(tm, a.ColumnName)
  IN  IF ~isEnumOrSetType(newType) THEN "F"
      ELSE IF ~col.found THEN "F"
      ELSE LET oldType == ToUpper(col.ColumnType)
           IN  IF HasPrefix(newType, StrENUM) # HasPrefix(oldType, StrENUM) THEN "F"
               ELSE IF HasPrefix(newType, StrSET) # HasPrefix(oldType, StrSET) THEN "F"
               ELSE "T"

condModifyVarcharExtension(a, tm) ==
  LET newLen == extractVarcharLength(a.ColumnType)
      col == findColumn(tm, a.ColumnName)
  IN  IF newLen <= 0 THEN "F"
      ELSE IF ~col.found THEN "F"
      ELSE LET oldLen == extractVarcharLength(col.ColumnType)
           IN  IF oldLen <= 0 \/ newLen <= oldLen THEN "F"
               ELSE B3(\/ (oldLen <= 255 /\ newLen <= 255)
                       \/ (oldLen >= 256 /\ newLen >= 256))

condModifyNullToNotNull(a, tm) ==
  LET col == findColumn(tm, a.ColumnName)
  IN  IF ~col.found THEN "F"
      ELSE LET sameType == EqualFold(col.ColumnType, a.ColumnType)
           IN  B3(sameType /\ col.IsNullable /\ ~isNullablePtr(a.IsNullable))

condModifyNotNullToNull(a, tm) ==
  LET col == findColumn(tm, a.ColumnName)
  IN  IF ~col.found THEN "F"
      ELSE LET sameType == EqualFold(col.ColumnType, a.ColumnType)
           IN  B3(sameType /\ ~col.IsNullable /\ isNullablePtr(a.IsNullable))

condModifyReorder(a, tm) ==
  IF a.Position = "" THEN "F"
  ELSE LET col == findColumn(tm, a.ColumnName)
       IN  IF ~col.found THEN "F"
           ELSE IF ~EqualFold(col.ColumnType, a.ColumnType) THEN "F"
           ELSE B3(col.IsNullable = isNullablePtr(a.IsNullable))

condModifyTypeChange(a, tm) ==
  LET col == findColumn(tm, a.ColumnName)
  IN  IF ~col.found THEN "T"
      ELSE B3(~EqualFold(col.ColumnType, a.ColumnType))

condChangeColumnRenameOnly(a, tm) ==
  LET col == findColumn(tm, a.OldColumnName)
  IN  IF col.found THEN B3(EqualFold(col.ColumnType, a.ColumnType)) ELSE "F"

(***************************************************************************)
(* The condition functions of indexRules, tableRules and partitionRules.   *)
(***************************************************************************)
condAddFulltextFirst(a, tm) ==
  IF tm.present THEN B3(~hasFulltextIndex(tm)) ELSE "F"

condChangeEngineSame(a, tm) ==
  IF ~tm.present THEN "F" ELSE B3(EqualFold(a.Engine, tm.Engine))

\* the different-engine rule answering false without a snapshot
condChangeEngineDifferentKnown(a, tm) ==
  IF ~tm.present THEN "F" ELSE B3(~EqualFold(a.Engine, tm.Engine))

condChangeEngineDifferent(a, tm) ==
  IF ~tm.present THEN "T" ELSE B3(~EqualFold(a.Engine, tm.Engine))

\* the condition without its nil check
condAddPartitionHashKeyUnguarded(a, tm) ==
  IF tm.present THEN B3(isHashOrKeyPartition(tm.PartitionType)) ELSE "P"

condAddPartitionHashKey(a, tm) ==
  IF tm.present THEN B3(isHashOrKeyPartition(tm.PartitionType)) ELSE "F"

condDropPartitionHashKey(a, tm) ==
  IF tm.present THEN B3(isHashOrKeyPartition(tm.PartitionType)) ELSE "F"

\* rule.Condition(action, tableMeta)
RuleCondition(rule, a, tm) ==
  CASE rule.Condition = "alwaysMatch" -> alwaysMatch(a, tm)
    [] rule.Condition = "condAddColumnAutoIncrement" -> condAddColumnAutoIncrement(a, tm)
    [] rule.Condition = "condAddColumnStored" -> condAddColumnStored(a, tm)
    [] rule.Condition = "condAddColumnVirtualPartitioned" -> condAddColumnVirtualPartitioned(a, tm)
    [] rule.Condition = "condAddColumnVirtual" -> condAddColumnVirtual(a, tm)
    [] rule.Condition = "condAddColumnTrailingNullable" -> condAddColumnTrailingNullable(a, tm)
    [] rule.Condition = "condAddColumnNonTrailingNullable" -> condAddColumnNonTrailingNullable(a, tm)
    [] rule.Condition = "condAddColumnTrailingNotNull" -> condAddColumnTrailingNotNull(a, tm)
    [] rule.Condition = "condAddColumnNonTrailingNotNull" -> condAddColumnNonTrailingNotNull(a, tm)
    [] rule.Condition = "condDropColumnStored" -> condDropColumnStored(a, tm)
    [] rule.Condition = "condDropColumnVirtualPartitioned" -> condDropColumnVirtualPartitioned(a, tm)
    [] rule.Condition = "condDropColumnVirtual" -> condDropColumnVirtual(a, tm)
    [] rule.Condition = "condRenameColumnReferencedByFK" -> condRenameColumnReferencedByFK(a, tm)
    [] rule.Condition = "condModifyGeneratedReorder" -> condModifyGeneratedReorder(a, tm)
    [] rule.Condition = "condModifyEnumSetExtension" -> condModifyEnumSetExtension(a, tm)
    [] rule.Condition = "condModifyVarcharExtension" -> condModifyVarcharExtension(a, tm)
    [] rule.Condition = "condModifyNullToNotNull" -> condModifyNullToNotNull(a, tm)
    [] rule.Condition = "condModifyNotNullToNull" -> condModifyNotNullToNull(a, tm)
    [] rule.Condition = "condModifyReorder" -> condModifyReorder(a, tm)
    [] rule.Condition = "condModifyTypeChange" -> condModifyTypeChange(a, tm)
    [] rule.Condition = "condChangeColumnRenameOnly" -> condChangeColumnRenameOnly(a, tm)
    [] rule.Condition = "condAddFulltextFirst" -> condAddFulltextFirst(a, tm)
    [] rule.Condition = "condChangeEngineSame" -> condChangeEngineSame(a, tm)
    [] rule.Condition = "condChangeEngineDifferent" -> condChangeEngineDifferent(a, tm)
    [] rule.Condition = "condAddPartitionHashKey" -> condAddPartitionHashKey(a, tm)
    [] rule.Condition = "condDropPartitionHashKey" -> condDropPartitionHashKey(a, tm)

(***************************************************************************)
(* predictor.go: Predict.                                                  *)
(***************************************************************************)
\* the rebuild flag looked at before the algorithm
calculateRiskRebuildFirst(algorithm, lock, rebuild) ==
  IF algorithm = AlgorithmCopy \/ lock = LockExclusive THEN RiskCritical
  ELSE IF rebuild THEN RiskHigh
  ELSE IF algorithm = AlgorithmInstant THEN RiskLow
  ELSE RiskMedium

calculateRisk(algorithm, lock, rebuild) ==
  IF algorithm = AlgorithmCopy \/ lock = LockExclusive THEN RiskCritical
  ELSE IF algorithm = AlgorithmInstant THEN RiskLow
  ELSE IF rebuild THEN RiskHigh
  ELSE RiskMedium

\* nil-safe summary of the table; only its label is kept
CollectTableInfo(tm) ==
  IF tm.present THEN "table info" ELSE "N/A (no table metadata)"

\* the outcome of a call that panicked: no Prediction is returned
PanicPrediction == [panicked |-> TRUE]

NonInnoDBWarning ==
  "Non-InnoDB engine -- all operations use COPY algorithm with EXCLUSIVE lock"

UnknownWarning ==
  "Unknown operation -- defaulting to COPY/EXCLUSIVE for safety"

\* the engine check at the head of Predict
IsNonInnoDB(tm) ==
  IF tm.present THEN ~EqualFold(tm.Engine, StrInnoDB) /\ tm.Engine # <<>> ELSE FALSE

NonInnoDBPrediction(a, tm) ==
  [panicked |-> FALSE,
   ActionType |-> a.Type,
   Description |-> a.Type \o " (non-InnoDB)",
   Algorithm |-> AlgorithmCopy,
   Lock |-> LockExclusive,
   TableRebuild |-> TRUE,
   RiskLevel |-> RiskCritical,
   TableInfo |-> CollectTableInfo(tm),
   Notes |-> <<>>,
   Warnings |-> <<NonInnoDBWarning>>]

RulePrediction(rule, a, tm) ==
  [panicked |-> FALSE,
   ActionType |-> a.Type,
   Description |-> rule.Description,
   Algorithm |-> rule.Algorithm,
   Lock |-> rule.Lock,
   TableRebuild |-> rule.TableRebuild,
   RiskLevel |-> calculateRisk(rule.Algorithm, rule.Lock, rule.TableRebuild),
   TableInfo |-> CollectTableInfo(tm),
   Notes |-> rule.Notes,
   Warnings |-> rule.Warnings]

\* a fallback that answers with the lock of an ordinary copy
FallbackPredictionSharedLock(a, tm) ==
  [panicked |-> FALSE,
   ActionType |-> a.Type,
   Description |-> a.Type \o " (unknown)",
   Algorithm |-> AlgorithmCopy,
   Lock |-> LockShared,
   TableRebuild |-> TRUE,
   RiskLevel |-> RiskCritical,
   TableInfo |-> CollectTableInfo(tm),
   Notes |-> <<>>,
   Warnings |-> <<UnknownWarning>>]

FallbackPrediction(a, tm) ==
  [panicked |-> FALSE,
   ActionType |-> a.Type,
   Description |-> a.Type \o " (unknown)",
   Algorithm |-> AlgorithmCopy,
   Lock |-> LockExclusive,
   TableRebuild |-> TRUE,
   RiskLevel |-> RiskCritical,
   TableInfo |-> CollectTableInfo(tm),
   Notes |-> <<>>,
   Warnings |-> <<UnknownWarning>>]

\* the loop run from the last rule to the first: the last match wins
RECURSIVE ScanRulesLastMatch(_, _, _, _)
ScanRulesLastMatch(rules, i, a, tm) ==
  LET k == Len(rules) + 1 - i
  IN  IF i > Len(rules) THEN FallbackPrediction(a, tm)
      ELSE IF rules[k].ActionType # a.Type THEN ScanRulesLastMatch(rules, i + 1, a, tm)
      ELSE LET c == RuleCondition(rules[k], a, tm)
           IN  IF c = "P" THEN PanicPrediction
               ELSE IF c = "F" THEN ScanRulesLastMatch(rules, i + 1, a, tm)
               ELSE RulePrediction(rules[k], a, tm)

\* the for loop of Predict from rule i on
RECURSIVE ScanRules(_, _, _, _)
ScanRules(rules, i, a, tm) ==
  IF i > Len(rules) THEN FallbackPrediction(a, tm)
  ELSE IF rules[i].ActionType # a.Type THEN ScanRules(rules, i + 1, a, tm)
  ELSE LET c == RuleCondition(rules[i], a, tm)
       IN  IF c = "P" THEN PanicPrediction
           ELSE IF c = "F" THEN ScanRules(rules, i + 1, a, tm)
           ELSE RulePrediction(rules[i], a, tm)

\* the rules consulted before the engine is looked at
PredictRulesBeforeEngine(a, tm) ==
  LET p == ScanRules(defaultRules, 1, a, tm)
  IN  IF p.panicked THEN p
      ELSE IF p.Warnings = <<UnknownWarning>> /\ IsNonInnoDB(tm)
           THEN NonInnoDBPrediction(a, tm)
      ELSE p

Predict(a, tm) ==
  IF IsNonInnoDB(tm) THEN NonInnoDBPrediction(a, tm)
  ELSE ScanRules(defaultRules, 1, a, tm)

(***************************************************************************)
(* The inputs Predict is called with.                                      *)
(***************************************************************************)
NameEmpty == <<>>
NameC == <<"c">>
NameCUpper == <<"C">>
NameD == <<"d">>

TyInt == <<"i", "n", "t">>
TyVarchar10 == <<"v", "a", "r", "c", "h", "a", "r", "(", "1", "0", ")">>
TyVarchar255 == <<"v", "a", "r", "c", "h", "a", "r", "(", "2", "5", "5", ")">>
TyVarchar255Upper == <<"V", "A", "R", "C", "H", "A", "R", "(", "2", "5", "5", ")">>
TyVarchar256 == <<"v", "a", "r", "c", "h", "a", "r", "(", "2", "5", "6", ")">>
TyVarchar300 == <<"v", "a", "r", "c", "h", "a", "r", "(", "3", "0", "0", ")">>
TyEnumA == <<"e", "n", "u", "m", "(", "'", "a", "'", ")">>
TyEnumAB == <<"E", "N", "U", "M", "(", "'", "a", "'", ",", "'", "b", "'", ")">>
TySetA == <<"s", "e", "t", "(", "'", "a", "'", ")">>

ColumnTypes ==
  {TyInt, TyVarchar10, TyVarchar255, TyVarchar255Upper, TyVarchar256,
   TyVarchar300, TyEnumA, TyEnumAB, TySetA}

EngineInnoDBLower == <<"i", "n", "n", "o", "d", "b">>
EngineMyISAM == <<"M", "y", "I", "S", "A", "M">>
Engines == {<<>>, StrInnoDB, EngineInnoDBLower, EngineMyISAM}

ExtraStored ==
  <<"S", "T", "O", "R", "E", "D", " ", "G", "E", "N", "E", "R", "A", "T", "E", "D">>
ExtraVirtualLower ==
  <<"v", "i", "r", "t", "u", "a", "l", " ", "g", "e", "n", "e", "r", "a", "t", "e", "d">>
Extras == {<<>>, ExtraStored, ExtraVirtualLower}

PartitionHashLower == <<"h", "a", "s", "h">>
PartitionRange == <<"R", "A", "N", "G", "E">>
PartitionTypes == {<<>>, PartitionHashLower, StrLINEAR_KEY, PartitionRange}

IndexBtree == <<"B", "T", "R", "E", "E">>
IndexFulltextLower == <<"f", "u", "l", "l", "t", "e", "x", "t">>

\* meta.AlterActionType: the kinds the rule table knows and one it does not
RuledKinds == {defaultRules[i].ActionType : i \in 1..Len(defaultRules)}
UnruledKind == "NO_SUCH_ACTION"
ActionKinds == RuledKinds \cup {UnruledKind}

\* meta.AlterAction with the fields of Detail that some rule reads; a field
\* the parser does not fill for a kind keeps its zero value
ZeroAction(kind) ==
  [Type |-> kind, ColumnName |-> <<>>, OldColumnName |-> <<>>,
   ColumnType |-> <<>>, IsNullable |-> "unset", Position |-> "",
   IsAutoIncrement |-> FALSE, GeneratedType |-> "", Engine |-> <<>>,
   DefaultValue |-> <<>>]

Nullabilities == {"unset", "true", "false"}
Positions == {"", "FIRST", "AFTER c"}
GeneratedTypes == {"", "STORED", "VIRTUAL"}
DefaultValues == {<<>>, <<"0">>}

AddColumnActions ==
  {[ZeroAction("ADD_COLUMN") EXCEPT !.ColumnName = NameD, !.ColumnType = TyInt,
      !.IsNullable = n, !.Position = p, !.IsAutoIncrement = ai, !.GeneratedType = g,
      !.DefaultValue = dv] :
     n \in Nullabilities, p \in Positions, ai \in BOOLEAN, g \in GeneratedTypes,
     dv \in DefaultValues}

DropColumnActions ==
  {[ZeroAction("DROP_COLUMN") EXCEPT !.ColumnName = c] :
     c \in {NameEmpty, NameC, NameCUpper}}

RenameColumnActions ==
  {[ZeroAction("RENAME_COLUMN") EXCEPT !.OldColumnName = o, !.ColumnName = c] :
     o \in {NameEmpty, NameC, NameCUpper}, c \in {NameC, NameD}}

ModifyColumnActions ==
  {[ZeroAction("MODIFY_COLUMN") EXCEPT !.ColumnName = c, !.ColumnType = t,
      !.IsNullable = n, !.Position = p] :
     c \in {NameEmpty, NameC, NameCUpper}, t \in ColumnTypes,
     n \in Nullabilities, p \in {"", "FIRST"}}

ChangeColumnActions ==
  {[ZeroAction("CHANGE_COLUMN") EXCEPT !.OldColumnName = o, !.ColumnName = NameD,
      !.ColumnType = t] :
     o \in {NameEmpty, NameC, NameCUpper}, t \in ColumnTypes}

ChangeEngineActions ==
  {[ZeroAction("CHANGE_ENGINE") EXCEPT !.Engine = e] : e \in Engines}

DetailedKinds ==
  {"ADD_COLUMN", "DROP_COLUMN", "RENAME_COLUMN", "MODIFY_COLUMN",
   "CHANGE_COLUMN", "CHANGE_ENGINE"}

PlainActions == {ZeroAction(k) : k \in ActionKinds \ DetailedKinds}

Actions ==
  AddColumnActions \cup DropColumnActions \cup RenameColumnActions
    \cup ModifyColumnActions \cup ChangeColumnActions \cup ChangeEngineActions
    \cup PlainActions

\* meta.ColumnMeta, meta.TableMeta
ColumnPool ==
  [Name : {NameC, NameD}, ColumnType : ColumnTypes, IsNullable : BOOLEAN,
   Extra : Extras]

\* columns that stand beside the column a rule looks at
FillerColumns ==
  {[Name |-> NameCUpper, ColumnType |-> TyInt, IsNullable |-> TRUE, Extra |-> <<>>],
   [Name |-> NameD, ColumnType |-> TyVarchar10, IsNullable |-> FALSE, Extra |-> ExtraVirtualLower]}

\* column lists of up to MaxColumns columns: at most one column of
\* ColumnPool at any place among filler columns
ColumnLists ==
  {<<>>} \cup
  UNION {{[i \in 1..n |-> IF i = k THEN c ELSE f[i]] :
            k \in 1..n, c \in ColumnPool, f \in [1..n -> FillerColumns]} :
         n \in 1..MaxColumns}

EmptyInnoDB ==
  [present |-> TRUE, Engine |-> StrInnoDB, IsPartitioned |-> FALSE,
   PartitionType |-> <<>>, Columns |-> <<>>, Indexes |-> <<>>,
   ReferencedBy |-> <<>>]

EngineMetas == {[EmptyInnoDB EXCEPT !.Engine = e] : e \in Engines}

ColumnMetas ==
  {[EmptyInnoDB EXCEPT !.Columns = cols, !.IsPartitioned = ip] :
     cols \in ColumnLists, ip \in BOOLEAN}

PartitionMetas ==
  {[EmptyInnoDB EXCEPT !.IsPartitioned = ip, !.PartitionType = pt] :
     ip \in BOOLEAN, pt \in PartitionTypes}

IndexMetas ==
  {[EmptyInnoDB EXCEPT !.Indexes = ix] :
     ix \in {<<[IndexType |-> IndexBtree]>>,
             <<[IndexType |-> IndexBtree], [IndexType |-> IndexFulltextLower]>>}}

ReferencedMetas ==
  {[EmptyInnoDB EXCEPT !.ReferencedBy = <<[ReferencedColumns |-> rc]>>,
                       !.Engine = e] :
     rc \in {<<NameC>>, <<NameD, NameCUpper>>}, e \in {StrInnoDB, <<>>}}

NonInnoDBColumnMetas ==
  {[EmptyInnoDB EXCEPT !.Engine = EngineMyISAM, !.Columns = <<c>>,
                       !.IsPartitioned = TRUE, !.PartitionType = PartitionHashLower] :
     c \in {col \in ColumnPool : col.Name = NameC /\ col.ColumnType = TyVarchar10}}

TableMetas ==
  {NilMeta} \cup EngineMetas \cup ColumnMetas \cup PartitionMetas
    \cup IndexMetas \cup ReferencedMetas \cup NonInnoDBColumnMetas

(***************************************************************************)
(* Foreign-key resolver: table identities, lock impact and the provider.   *)
(***************************************************************************)
qualifiedName(schema, table) ==
  IF schema = <<>> THEN table ELSE schema \o <<".">> \o table

\* index of the last '.' of name at or after i, 0 when there is none
RECURSIVE LastDot(_, _)
LastDot(name, i) ==
  IF i > Len(name) THEN 0
  ELSE IF LastDot(name, i + 1) # 0 THEN LastDot(name, i + 1)
  ELSE IF name[i] = "." THEN i
  ELSE 0

\* index of the first '.' of name at or after i, 0 when there is none
RECURSIVE FirstDot(_, _)
FirstDot(name, i) ==
  IF i > Len(name) THEN 0
  ELSE IF name[i] = "." THEN i
  ELSE FirstDot(name, i + 1)

splitQualifiedName(name) ==
  LET i == FirstDot(name, 1)
  IN  IF i = 0 THEN << <<>>, name >>
      ELSE << SubSeq(name, 1, i - 1), SubSeq(name, i + 1, Len(name)) >>

FKDirectionParent == "PARENT"
FKDirectionChild == "CHILD"

isFKColumn(colName, fk) ==
  \/ \E i \in 1..Len(fk.SourceColumns) : fk.SourceColumns[i] = colName
  \/ \E i \in 1..Len(fk.ReferencedColumns) : fk.ReferencedColumns[i] = colName

RECURSIVE JoinColumns(_, _)
JoinColumns(cols, i) ==
  IF i > Len(cols) THEN <<>>
  ELSE (IF i > 1 THEN <<",", " ">> ELSE <<>>) \o cols[i] \o JoinColumns(cols, i + 1)

fkColumnsStr(cols) ==
  IF Len(cols) = 1 THEN cols[1]
  ELSE <<"(">> \o JoinColumns(cols, 1) \o <<")">>

ReasonDropColumn ==
  <<"D", "R", "O", "P", " ", "C", "O", "L", "U", "M", "N", " ", "o", "n",
    " ", "F", "K", " ", "c", "o", "l", "u", "m", "n", " ", "-", "-", " ",
    "i", "m", "p", "l", "i", "c", "i", "t", " ", "F", "K", " ", "c", "o",
    "n", "s", "t", "r", "a", "i", "n", "t", " ", "c", "h", "a", "n", "g",
    "e">>

ReasonTypeChange ==
  <<"C", "o", "l", "u", "m", "n", " ", "t", "y", "p", "e", " ", "c", "h",
    "a", "n", "g", "e", " ", "o", "n", " ", "F", "K", " ", "c", "o", "l",
    "u", "m", "n", " ", "-", "-", " ", "F", "K", " ", "v", "a", "l", "i",
    "d", "a", "t", "i", "o", "n", " ", "r", "e", "q", "u", "i", "r", "e",
    "d">>

\* fmt.Sprintf("FK: %s.%s -> %s.%s", ...)
ReasonPropagation(fk) ==
  <<"F", "K", ":", " ">> \o fk.SourceTable \o <<".">> \o fkColumnsStr(fk.SourceColumns)
    \o <<" ", "-", ">", " ">>
    \o fk.ReferencedTable \o <<".">> \o fkColumnsStr(fk.ReferencedColumns)

ZeroLockImpact == [MetadataLock |-> FALSE, LockLevel |-> "", Reason |-> <<>>]

DefaultLockImpact(direction, fk) ==
  IF direction \in {FKDirectionParent, FKDirectionChild}
  THEN [MetadataLock |-> TRUE, LockLevel |-> LockShared, Reason |-> ReasonPropagation(fk)]
  ELSE ZeroLockImpact

\* the loop over the actions from the i-th on, then the default propagation
RECURSIVE LockImpactFrom(_, _, _, _)
LockImpactFrom(direction, acts, i, fk) ==
  IF i > Len(acts) THEN DefaultLockImpact(direction, fk)
  ELSE IF acts[i].Type = "DROP_COLUMN" /\ isFKColumn(acts[i].ColumnName, fk)
  THEN [MetadataLock |-> TRUE, LockLevel |-> LockExclusive, Reason |-> ReasonDropColumn]
  ELSE IF acts[i].Type \in {"MODIFY_COLUMN", "CHANGE_COLUMN"}
            /\ isFKColumn(acts[i].ColumnName, fk)
  THEN [MetadataLock |-> TRUE, LockLevel |-> LockExclusive, Reason |-> ReasonTypeChange]
  ELSE LockImpactFrom(direction, acts, i + 1, fk)

DetermineLockImpact(direction, acts, fk) == LockImpactFrom(direction, acts, 1, fk)

parentConfig == [direction |-> FKDirectionParent]
childConfig == [direction |-> FKDirectionChild]

tableKey(cfg, fk) ==
  IF cfg = parentConfig
  THEN qualifiedName(fk.ReferencedSchema, fk.ReferencedTable)
  ELSE qualifiedName(fk.SourceSchema, fk.SourceTable)

nextFKs(cfg, tm) ==
  IF cfg = parentConfig THEN tm.ForeignKeys ELSE tm.ReferencedBy

FKRelation(key, fk, cfg, depth, impact) ==
  [Table |-> key, Constraint |-> fk, Direction |-> cfg.direction,
   Depth |-> depth, LockImpact |-> impact]

appendTo(cfg, g, rel) ==
  IF cfg = parentConfig
  THEN [g EXCEPT !.Parents = Append(@, rel)]
  ELSE [g EXCEPT !.Children = Append(@, rel)]

CircularPrefix ==
  <<"C", "i", "r", "c", "u", "l", "a", "r", " ", "F", "K", " ", "r", "e",
    "f", "e", "r", "e", "n", "c", "e", " ", "d", "e", "t", "e", "c", "t",
    "e", "d", ":", " ">>

CircularSuffix ==
  <<" ", "(", "s", "k", "i", "p", "p", "i", "n", "g", ")">>

\* fmt.Sprintf("Circular FK reference detected: %s (skipping)", key)
CircularWarning(key) == CircularPrefix \o key \o CircularSuffix

NilGraph == [present |-> FALSE]

NewGraph(schema, table, depthLimit) ==
  [Root |-> qualifiedName(schema, table), Parents |-> <<>>, Children |-> <<>>,
   MaxDepth |-> depthLimit, Warnings |-> <<>>]

TotalAffectedTables(g) == Len(g.Parents) + Len(g.Children)

AllRelations(g) == g.Parents \o g.Children

\* MetaProvider.GetTableMeta: the tables the provider knows, looked up by
\* schema and table name; any other lookup is an error
LookupError == [err |-> TRUE]

ProviderGetTableMeta(p, schema, table) ==
  IF \E tm \in p : tm.Schema = schema /\ tm.Table = table
  THEN [err |-> FALSE,
        meta |-> CHOOSE tm \in p : tm.Schema = schema /\ tm.Table = table]
  ELSE LookupError

\* the depth test without the test: no call is cut
DepthExceededNever(depth, limit) == FALSE

\* the depth test cutting one level early
DepthExceededOffByOne(depth, limit) == depth >= limit

\* depth > r.maxDepth
DepthExceeded(depth, limit) == depth > limit

\* a visited map that never answers true
IsVisitedNever(seen, key) == FALSE

\* visited[key]
IsVisited(seen, key) == key \in seen

\* the early return of Resolve without the fkChecks test
SkipResolutionOnErrorOnly(checks, lookup) == lookup.err

\* !r.fkChecks, or the lookup of the table itself failed: Resolve returns
\* the empty graph
SkipResolution(checks, lookup) == ~checks \/ lookup.err

(***************************************************************************)
(* Inputs of the resolver: tables, constraints, providers, action lists.   *)
(***************************************************************************)
NameE == <<"e">>
NameZ == <<"z">>
SchemaS == <<"s">>

\* (schema, table) of the tables of the catalogue; TC has no schema, TD has
\* no schema and a name with a dot
TA == [Schema |-> SchemaS, Table |-> <<"a">>]
TB == [Schema |-> SchemaS, Table |-> <<"b">>]
TC == [Schema |-> <<>>, Table |-> <<"c">>]
TD == [Schema |-> <<>>, Table |-> <<"s", ".", "b">>]
TableIds == {TA, TB, TC, TD}

\* meta.ForeignKeyMeta (OnDelete and OnUpdate are never read)
ForeignKeyMeta(name, src, srcCols, ref, refCols) ==
  [ConstraintName |-> name,
   SourceSchema |-> src.Schema, SourceTable |-> src.Table,
   SourceColumns |-> srcCols,
   ReferencedSchema |-> ref.Schema, ReferencedTable |-> ref.Table,
   ReferencedColumns |-> refCols]

\* the constraints a catalogue draws from, in constraint-name order
FKPool ==
  <<ForeignKeyMeta("fk_a_a", TA, <<NameC>>, TA, <<NameD>>),
    ForeignKeyMeta("fk_a_b", TA, <<NameC>>, TB, <<NameD>>),
    ForeignKeyMeta("fk_a_b2", TA, <<NameE, NameCUpper>>, TB, <<NameE, NameCUpper>>),
    ForeignKeyMeta("fk_a_c", TA, <<NameC>>, TC, <<NameD>>),
    ForeignKeyMeta("fk_a_d", TA, <<NameC>>, TD, <<NameD>>),
    ForeignKeyMeta("fk_b_a", TB, <<NameC>>, TA, <<NameD>>),
    ForeignKeyMeta("fk_b_a2", TB, <<NameE, NameCUpper>>, TA, <<NameE, NameCUpper>>),
    ForeignKeyMeta("fk_b_b", TB, <<NameC>>, TB, <<NameD>>),
    ForeignKeyMeta("fk_b_c", TB, <<NameC>>, TC, <<NameD>>),
    ForeignKeyMeta("fk_c_a", TC, <<NameC>>, TA, <<NameD>>),
    ForeignKeyMeta("fk_c_b", TC, <<NameC>>, TB, <<NameD>>),
    ForeignKeyMeta("fk_c_c", TC, <<NameC>>, TC, <<NameD>>),
    ForeignKeyMeta("fk_d_a", TD, <<NameC>>, TA, <<NameD>>)>>

FKSets == {S \in SUBSET (1..Len(FKPool)) : Cardinality(S) <= MaxFKs}

\* the constraints of S whose source table is t
ForeignKeysOf(t, S) ==
  LET Mine(fk) == /\ \E i \in S : FKPool[i] = fk
                  /\ fk.SourceSchema = t.Schema
                  /\ fk.SourceTable = t.Table
  IN  SelectSeq(FKPool, Mine)

\* the constraints of S that reference t
ReferencedByOf(t, S) ==
  LET Mine(fk) == /\ \E i \in S : FKPool[i] = fk
                  /\ fk.ReferencedSchema = t.Schema
                  /\ fk.ReferencedTable = t.Table
  IN  SelectSeq(FKPool, Mine)

\* meta.TableMeta with the fields the resolver reads; a metadata file may
\* leave referenced_by out
ResolverTableMeta(t, S, withReferencedBy) ==
  [Schema |-> t.Schema, Table |-> t.Table,
   ForeignKeys |-> ForeignKeysOf(t, S),
   ReferencedBy |-> IF withReferencedBy THEN ReferencedByOf(t, S) ELSE <<>>]

\* tables whose lookup fails
MissingTables == {{}, {TA}, {TB}}

Providers ==
  {{ResolverTableMeta(t, S, w) : t \in TableIds \ missing} :
     S \in FKSets, w \in BOOLEAN, missing \in MissingTables}

Roots == {TA, TC}

ResolverActionLists ==
  {<<>>,
   <<[ZeroAction("DROP_COLUMN") EXCEPT !.ColumnName = NameC]>>,
   <<[ZeroAction("DROP_COLUMN") EXCEPT !.ColumnName = NameE]>>,
   <<[ZeroAction("ADD_COLUMN") EXCEPT !.ColumnName = NameE],
     [ZeroAction("CHANGE_COLUMN") EXCEPT !.ColumnName = NameD,
                                         !.OldColumnName = NameZ]>>}

Max(a, b) == IF a >= b THEN a ELSE b

(***************************************************************************)
(* State.                                                                  *)
(***************************************************************************)
VARIABLES
  tableMeta,    \* the metadata the caller obtained for the table (NilMeta: none)
  action,       \* the action of the Predict call in progress
  prediction,   \* what the call returned
  pc,           \* "start", "meta" (metadata obtained), "predicted"
  provider,     \* Resolver.provider: the tables it can look up
  maxDepth,     \* Resolver.maxDepth
  fkChecks,     \* Resolver.fkChecks
  root,         \* schema and table of the Resolve call
  actions,      \* actions of the Resolve call
  graph,        \* the FKGraph under construction, then returned
  resolveErr,   \* the error Resolve returned ("" before it returns)
  rootMeta,     \* Resolve's local tableMeta
  visited,      \* the visited map: the keys it holds
  stack,        \* the loops in progress, innermost last: the constraints
                \* left to visit, the depth they are visited at, the direction
  deepest,      \* largest depth argument of a resolveDirection call so far
  rpc,          \* "idle", "resolving", "returned"
  call,         \* a function called on its own: its name and arguments
  result,       \* what that call returned
  previous      \* what the caller keeps of the Resolve call before this one:
                \* its arguments and the graph it returned

predictorVars == <<tableMeta, action, prediction, pc>>
resolverVars ==
  <<provider, maxDepth, fkChecks, root, actions, graph, resolveErr,
    rootMeta, visited, stack, deepest, rpc>>
functionVars == <<call, result>>
callerVars == <<previous>>
vars == <<predictorVars, resolverVars, functionVars, callerVars>>

NoAction == ZeroAction(UnruledKind)

\* no Predict call in progress
PredictorIdle ==
  /\ tableMeta = NilMeta
  /\ action = NoAction
  /\ prediction = PanicPrediction
  /\ pc = "start"

\* no Resolve call has returned yet
NoPrevious == [called |-> FALSE]

\* no Resolve call in progress
ResolverIdle ==
  /\ root = TA
  /\ actions = <<>>
  /\ graph = NilGraph
  /\ resolveErr = ""
  /\ rootMeta = NilMeta
  /\ visited = {}
  /\ stack = <<>>
  /\ deepest = 0
  /\ rpc = "idle"
  /\ previous = NoPrevious

NoCall == [fn |-> ""]

\* no function called on its own
FunctionsIdle ==
  /\ call = NoCall
  /\ result = NoCall

\* no resolver built
NoResolver ==
  /\ provider = {}
  /\ maxDepth = 0
  /\ fkChecks = FALSE
  /\ ResolverIdle

(***************************************************************************)
(* The predictor.                                                          *)
(***************************************************************************)
\* cmd/analyze.go: the --fk-checks flag is set before the first statement is
\* analysed; no Resolve call is looked at here
InitPredict ==
  /\ PredictorIdle
  /\ provider = {}
  /\ maxDepth = 0
  /\ fkChecks \in BOOLEAN
  /\ ResolverIdle
  /\ FunctionsIdle

\* cmd/analyze.go: tableMeta, _ := collector.GetTableMeta(schema, op.Table)
GetTableMeta ==
  /\ pc = "start"
  /\ tableMeta' \in TableMetas
  /\ pc' = "meta"
  /\ UNCHANGED <<action, prediction>>
  /\ UNCHANGED resolverVars
  /\ UNCHANGED functionVars
  /\ UNCHANGED callerVars

\* p.Predict(a, tableMeta) for one action of the statement
PredictCall ==
  /\ pc = "meta"
  /\ \E a \in Actions :
       /\ action' = a
       /\ prediction' = Predict(a, tableMeta)
  /\ pc' = "predicted"
  /\ UNCHANGED tableMeta
  /\ UNCHANGED resolverVars
  /\ UNCHANGED functionVars
  /\ UNCHANGED callerVars

\* PredictAll moves on to the statement's next action
NextAction ==
  /\ pc = "predicted"
  /\ action' = NoAction
  /\ prediction' = PanicPrediction
  /\ pc' = "meta"
  /\ UNCHANGED tableMeta
  /\ UNCHANGED resolverVars
  /\ UNCHANGED functionVars
  /\ UNCHANGED callerVars

NextPredict == GetTableMeta \/ PredictCall \/ NextAction

SpecPredict == InitPredict /\ [][NextPredict]_vars

Predicted == pc = "predicted"

(***************************************************************************)
(* The resolver.                                                           *)
(***************************************************************************)
\* NewResolver(provider, maxDepth, fkChecks)
InitResolve ==
  /\ PredictorIdle
  /\ provider \in Providers
  /\ maxDepth \in 0..MaxDepthBound
  /\ fkChecks \in BOOLEAN
  /\ ResolverIdle
  /\ FunctionsIdle

Frame(fks, depth, cfg) == [fks |-> fks, depth |-> depth, cfg |-> cfg]

\* a failed lookup that also ends the loop of the caller
RecurseOrAbandon(caller, lookup, cfg, depth) ==
  IF lookup.err
  THEN [caller EXCEPT ![Len(caller)].fks = <<>>]
  ELSE Append(caller, Frame(nextFKs(cfg, lookup.meta), depth + 1, cfg))

\* resolveDirection after it recorded its edge: return to the caller when
\* the lookup failed, else loop over the next constraints one level deeper
RecurseOrReturn(caller, lookup, cfg, depth) ==
  IF lookup.err
  THEN caller
  ELSE Append(caller, Frame(nextFKs(cfg, lookup.meta), depth + 1, cfg))

\* a visited map that keeps the keys of the map before it
KeptVisited(key) == visited \cup {key}

\* visited := map[string]bool{key: true}
NewVisited(key) == {key}

\* Resolve up to its first loop
Resolve ==
  /\ rpc = "idle"
  /\ \E t \in Roots, acts \in ResolverActionLists :
       LET lookup == ProviderGetTableMeta(provider, t.Schema, t.Table)
       IN  /\ root' = t
           /\ actions' = acts
           /\ graph' = NewGraph(t.Schema, t.Table, maxDepth)
           /\ IF SkipResolution(fkChecks, lookup)
              THEN /\ rpc' = "returned"
                   /\ resolveErr' = "nil"
                   /\ UNCHANGED <<rootMeta, visited, stack>>
              ELSE /\ rpc' = "resolving"
                   /\ rootMeta' = lookup.meta
                   /\ visited' = NewVisited(qualifiedName(t.Schema, t.Table))
                   /\ stack' = <<Frame(lookup.meta.ForeignKeys, 1, parentConfig)>>
                   /\ UNCHANGED resolveErr
  /\ UNCHANGED <<provider, maxDepth, fkChecks, deepest>>
  /\ UNCHANGED predictorVars
  /\ UNCHANGED functionVars
  /\ UNCHANGED callerVars

\* one call of resolveDirection, made by the innermost loop for its next
\* constraint, up to the call's own loop; the provider is never nil here,
\* Resolve has called it before the first resolveDirection
ResolveDirection ==
  /\ rpc = "resolving"
  /\ stack # <<>>
  /\ stack[Len(stack)].fks # <<>>
  /\ LET top == stack[Len(stack)]
         fk == Head(top.fks)
         caller == [stack EXCEPT ![Len(stack)].fks = Tail(@)]
         key == tableKey(top.cfg, fk)
         parts == splitQualifiedName(key)
         lookup == ProviderGetTableMeta(provider, parts[1], parts[2])
         impact == DetermineLockImpact(top.cfg.direction, actions, fk)
     IN  /\ deepest' = Max(deepest, top.depth)
         /\ IF DepthExceeded(top.depth, maxDepth)
            THEN /\ stack' = caller
                 /\ UNCHANGED <<graph, visited>>
            ELSE IF IsVisited(visited, key)
            THEN /\ graph' = [graph EXCEPT !.Warnings = Append(@, CircularWarning(key))]
                 /\ stack' = caller
                 /\ UNCHANGED visited
            ELSE /\ visited' = visited \cup {key}
                 /\ graph' = appendTo(top.cfg, graph,
                                      FKRelation(key, fk, top.cfg, top.depth, impact))
                 /\ stack' = RecurseOrReturn(caller, lookup, top.cfg, top.depth)
  /\ UNCHANGED <<provider, maxDepth, fkChecks, root, actions, resolveErr, rootMeta, rpc>>
  /\ UNCHANGED predictorVars
  /\ UNCHANGED functionVars
  /\ UNCHANGED callerVars

\* the loop of a resolveDirection call is over: the call returns
ResolveDirectionReturn ==
  /\ rpc = "resolving"
  /\ Len(stack) > 1
  /\ stack[Len(stack)].fks = <<>>
  /\ stack' = SubSeq(stack, 1, Len(stack) - 1)
  /\ UNCHANGED <<provider, maxDepth, fkChecks, root, actions, graph, resolveErr,
                 rootMeta, visited, deepest, rpc>>
  /\ UNCHANGED predictorVars
  /\ UNCHANGED functionVars
  /\ UNCHANGED callerVars

\* Resolve's loop over tableMeta.ForeignKeys is over: on to ReferencedBy
ResolveChildren ==
  /\ rpc = "resolving"
  /\ Len(stack) = 1
  /\ stack[1].fks = <<>>
  /\ stack[1].cfg = parentConfig
  /\ stack' = <<Frame(rootMeta.ReferencedBy, 1, childConfig)>>
  /\ UNCHANGED <<provider, maxDepth, fkChecks, root, actions, graph, resolveErr,
                 rootMeta, visited, deepest, rpc>>
  /\ UNCHANGED predictorVars
  /\ UNCHANGED functionVars
  /\ UNCHANGED callerVars

\* Resolve's second loop is over: return graph, nil
ResolveReturn ==
  /\ rpc = "resolving"
  /\ Len(stack) = 1
  /\ stack[1].fks = <<>>
  /\ stack[1].cfg = childConfig
  /\ rpc' = "returned"
  /\ resolveErr' = "nil"
  /\ stack' = <<>>
  /\ UNCHANGED <<provider, maxDepth, fkChecks, root, actions, graph, rootMeta,
                 visited, deepest>>
  /\ UNCHANGED predictorVars
  /\ UNCHANGED functionVars
  /\ UNCHANGED callerVars

\* cmd/analyze.go: the next statement gets a new resolver on the same flags
NextOperation ==
  /\ rpc = "returned"
  /\ root' = TA
  /\ actions' = <<>>
  /\ graph' = NilGraph
  /\ resolveErr' = ""
  /\ rootMeta' = NilMeta
  /\ visited' = {}
  /\ stack' = <<>>
  /\ deepest' = 0
  /\ rpc' = "idle"
  /\ UNCHANGED <<provider, maxDepth, fkChecks>>
  /\ UNCHANGED predictorVars
  /\ UNCHANGED functionVars
  /\ UNCHANGED callerVars

\* the caller keeps the graph it received and calls Resolve again on the
\* same Resolver; the locals of the call that returned are unreachable, and
\* what the variables still hold of them is stale memory
ResolveAgain ==
  /\ rpc = "returned"
  /\ previous' = [called |-> TRUE, root |-> root, actions |-> actions,
                  graph |-> graph, resolveErr |-> resolveErr]
  /\ \E t \in Roots, acts \in ResolverActionLists :
       LET lookup == ProviderGetTableMeta(provider, t.Schema, t.Table)
       IN  /\ root' = t
           /\ actions' = acts
           /\ graph' = NewGraph(t.Schema, t.Table, maxDepth)
           /\ deepest' = 0
           /\ IF SkipResolution(fkChecks, lookup)
              THEN /\ rpc' = "returned"
                   /\ resolveErr' = "nil"
                   /\ rootMeta' = NilMeta
                   /\ stack' = <<>>
                   /\ UNCHANGED visited
              ELSE /\ rpc' = "resolving"
                   /\ rootMeta' = lookup.meta
                   /\ visited' = NewVisited(qualifiedName(t.Schema, t.Table))
                   /\ stack' = <<Frame(lookup.meta.ForeignKeys, 1, parentConfig)>>
                   /\ resolveErr' = ""
  /\ UNCHANGED <<provider, maxDepth, fkChecks>>
  /\ UNCHANGED predictorVars
  /\ UNCHANGED functionVars

NextResolve ==
  \/ Resolve
  \/ ResolveDirection
  \/ ResolveDirectionReturn
  \/ ResolveChildren
  \/ ResolveReturn
  \/ NextOperation

SpecResolve == InitResolve /\ [][NextResolve]_vars

\* every call that has started keeps running
SpecResolveLive == SpecResolve /\ WF_vars(NextResolve)

\* a Resolver called again and again
NextRepeat ==
  \/ Resolve
  \/ ResolveDirection
  \/ ResolveDirectionReturn
  \/ ResolveChildren
  \/ ResolveReturn
  \/ ResolveAgain

SpecRepeat == InitResolve /\ [][NextRepeat]_vars

Returned == rpc = "returned"

(***************************************************************************)
(* DetermineLockImpact and splitQualifiedName called on their own.         *)
(***************************************************************************)
\* actions as the parser builds them: CHANGE COLUMN and RENAME COLUMN carry
\* the new name in ColumnName and the existing column in OldColumnName
ImpactActions ==
  {[ZeroAction("DROP_COLUMN") EXCEPT !.ColumnName = NameC],
   [ZeroAction("DROP_COLUMN") EXCEPT !.ColumnName = NameE],
   [ZeroAction("DROP_COLUMN") EXCEPT !.ColumnName = NameZ],
   [ZeroAction("MODIFY_COLUMN") EXCEPT !.ColumnName = NameD, !.ColumnType = TyInt],
   [ZeroAction("MODIFY_COLUMN") EXCEPT !.ColumnName = NameZ, !.ColumnType = TyInt],
   [ZeroAction("CHANGE_COLUMN") EXCEPT !.ColumnName = NameC, !.OldColumnName = NameC,
                                       !.ColumnType = TyInt],
   [ZeroAction("CHANGE_COLUMN") EXCEPT !.ColumnName = NameZ, !.OldColumnName = NameC,
                                       !.ColumnType = TyInt],
   [ZeroAction("CHANGE_COLUMN") EXCEPT !.ColumnName = NameD, !.OldColumnName = NameZ,
                                       !.ColumnType = TyInt],
   [ZeroAction("RENAME_COLUMN") EXCEPT !.ColumnName = NameZ, !.OldColumnName = NameC],
   [ZeroAction("ADD_COLUMN") EXCEPT !.ColumnName = NameZ, !.ColumnType = TyInt]}

ImpactActionLists ==
  UNION {[1..n -> ImpactActions] : n \in 0..MaxActions}

\* one single-column constraint, one two-column constraint, one whose source
\* table has no schema
ImpactConstraints == {FKPool[2], FKPool[3], FKPool[10]}

\* FKDirection is a string: the empty string is neither direction
ImpactDirections == {FKDirectionParent, FKDirectionChild, ""}

NameChars == {"a", "b", "."}

SplitNames == UNION {[1..n -> NameChars] : n \in 0..MaxNameLen}

InitFunctions ==
  /\ PredictorIdle
  /\ NoResolver
  /\ FunctionsIdle

CallDetermineLockImpact ==
  /\ call = NoCall
  /\ \E direction \in ImpactDirections, acts \in ImpactActionLists,
        fk \in ImpactConstraints :
       /\ call' = [fn |-> "DetermineLockImpact", direction |-> direction,
                   actions |-> acts, fk |-> fk]
       /\ result' = DetermineLockImpact(direction, acts, fk)
  /\ UNCHANGED predictorVars
  /\ UNCHANGED resolverVars
  /\ UNCHANGED callerVars

CallSplitQualifiedName ==
  /\ call = NoCall
  /\ \E name \in SplitNames :
       /\ call' = [fn |-> "splitQualifiedName", name |-> name]
       /\ result' = splitQualifiedName(name)
  /\ UNCHANGED predictorVars
  /\ UNCHANGED resolverVars
  /\ UNCHANGED callerVars

\* the key of a table, built as resolveDirection builds it from the two
\* names of a constraint
CallQualifiedName ==
  /\ call = NoCall
  /\ \E schema \in SplitNames, table \in SplitNames :
       /\ call' = [fn |-> "qualifiedName", schema |-> schema, table |-> table]
       /\ result' = qualifiedName(schema, table)
  /\ UNCHANGED predictorVars
  /\ UNCHANGED resolverVars
  /\ UNCHANGED callerVars

\* the call is over
ReturnCall ==
  /\ call # NoCall
  /\ call' = NoCall
  /\ result' = NoCall
  /\ UNCHANGED predictorVars
  /\ UNCHANGED resolverVars
  /\ UNCHANGED callerVars

NextFunctions ==
  \/ CallDetermineLockImpact
  \/ CallSplitQualifiedName
  \/ CallQualifiedName
  \/ ReturnCall

SpecFunctions == InitFunctions /\ [][NextFunctions]_vars

(***************************************************************************)
(* Properties of Predict.                                                  *)
(***************************************************************************)
\* the engine string is present and is not InnoDB in any case
EngineIsForeign(tm) ==
  /\ tm.present
  /\ tm.Engine # <<>>
  /\ ToUpper(tm.Engine) # ToUpper(StrInnoDB)

\* the engine check lets the rules decide
EngineAbsentOrInnoDB(tm) == ~tm.present \/ ToUpper(tm.Engine) = ToUpper(StrInnoDB)

RuleMatches(i, a, tm) ==
  /\ defaultRules[i].ActionType = a.Type
  /\ RuleCondition(defaultRules[i], a, tm) = "T"

RuleDescriptions == {defaultRules[i].Description : i \in 1..Len(defaultRules)}

ConservativeDefaults(p) ==
  /\ ~p.panicked
  /\ p.Algorithm = "COPY"
  /\ p.Lock = "EXCLUSIVE"
  /\ p.TableRebuild = TRUE
  /\ p.RiskLevel = "CRITICAL"

\* C1: whatever the action kind, ruled or not, a snapshot whose engine is
\* present and is not InnoDB (in any case) gets COPY, EXCLUSIVE, rebuild,
\* CRITICAL and the non-InnoDB warning, and nothing of any rule.
C1_NonInnoDBShortCircuit ==
  (Predicted /\ EngineIsForeign(tableMeta)) =>
    /\ ConservativeDefaults(prediction)
    /\ prediction.Warnings = <<NonInnoDBWarning>>
    /\ prediction.Notes = <<>>
    /\ prediction.Description \notin RuleDescriptions
    /\ prediction.ActionType = action.Type

\* C1 witness: a MyISAM table with a column, and a MODIFY COLUMN that the
\* rules would have answered
C1_Witness ==
  /\ Predicted
  /\ tableMeta.present
  /\ tableMeta.Engine = EngineMyISAM
  /\ Len(tableMeta.Columns) = 1
  /\ action.Type = "MODIFY_COLUMN"
  /\ action.ColumnName = NameC
  /\ prediction.Lock = "EXCLUSIVE"

\* C2: on every path the risk tier of a Prediction is the priority function
\* of its own algorithm, lock and rebuild flag.
C2_RiskIsPriorityFunction ==
  (Predicted /\ ~prediction.panicked) =>
    LET p == prediction
    IN  /\ (p.Algorithm = "COPY" \/ p.Lock = "EXCLUSIVE") => p.RiskLevel = "CRITICAL"
        /\ (p.Algorithm # "COPY" /\ p.Lock # "EXCLUSIVE" /\ p.Algorithm = "INSTANT")
             => p.RiskLevel = "LOW"
        /\ (p.Algorithm # "COPY" /\ p.Lock # "EXCLUSIVE" /\ p.Algorithm # "INSTANT")
             => p.RiskLevel = (IF p.TableRebuild THEN "HIGH" ELSE "MEDIUM")

\* C2 witness: an INSTANT prediction that rebuilds the table and is LOW
C2_Witness ==
  /\ Predicted
  /\ ~prediction.panicked
  /\ prediction.Algorithm = "INSTANT"
  /\ prediction.TableRebuild
  /\ prediction.RiskLevel = "LOW"

\* C3: Predict returns a Prediction with a defined algorithm, lock level
\* and risk tier for every action and every snapshot or none, and no rule
\* condition panics on the action with an absent snapshot.
C3_PredictTotal ==
  Predicted =>
    /\ ~prediction.panicked
    /\ prediction.Algorithm \in {"INSTANT", "INPLACE", "COPY"}
    /\ prediction.Lock \in {"NONE", "SHARED", "EXCLUSIVE"}
    /\ prediction.RiskLevel \in {"LOW", "MEDIUM", "HIGH", "CRITICAL"}
    /\ \A i \in 1..Len(defaultRules) :
         RuleCondition(defaultRules[i], action, NilMeta) \in {"T", "F"}

\* C3 witness: no snapshot, an ADD PARTITION action, a Prediction returned
C3_Witness ==
  /\ Predicted
  /\ ~tableMeta.present
  /\ action.Type = "ADD_PARTITION"
  /\ ~prediction.panicked
  /\ prediction.Algorithm = "INPLACE"

\* C4: when no rule of the action's kind matches and the snapshot is absent
\* or InnoDB, the Prediction is COPY, EXCLUSIVE, rebuild, CRITICAL with the
\* unknown-operation warning.
C4_UnknownFallback ==
  (/\ Predicted
   /\ EngineAbsentOrInnoDB(tableMeta)
   /\ \A i \in 1..Len(defaultRules) : ~RuleMatches(i, action, tableMeta)) =>
    /\ ConservativeDefaults(prediction)
    /\ prediction.Warnings = <<UnknownWarning>>

\* C4 witness: a kind without rules on an InnoDB table
C4_Witness ==
  /\ Predicted
  /\ action.Type = UnruledKind
  /\ tableMeta.present
  /\ tableMeta.Engine = StrInnoDB
  /\ prediction.Warnings = <<UnknownWarning>>

\* C5: when the engine short-circuit does not apply, the Prediction carries
\* the description, algorithm, lock, rebuild flag, notes and warnings of
\* the first rule in declaration order whose kind is the action's and whose
\* condition holds; later rules do not count.
C5_FirstMatchWins ==
  (Predicted /\ ~EngineIsForeign(tableMeta)) =>
    \A i \in 1..Len(defaultRules) :
      (/\ RuleMatches(i, action, tableMeta)
       /\ \A j \in 1..(i - 1) : ~RuleMatches(j, action, tableMeta)) =>
        /\ ~prediction.panicked
        /\ prediction.Description = defaultRules[i].Description
        /\ prediction.Algorithm = defaultRules[i].Algorithm
        /\ prediction.Lock = defaultRules[i].Lock
        /\ prediction.TableRebuild = defaultRules[i].TableRebuild
        /\ prediction.Notes = defaultRules[i].Notes
        /\ prediction.Warnings = defaultRules[i].Warnings

\* C5 witness: a DROP COLUMN of a STORED generated column, where the first
\* and the last DROP COLUMN rule both match
C5_Witness ==
  /\ Predicted
  /\ action.Type = "DROP_COLUMN"
  /\ Cardinality({i \in 1..Len(defaultRules) : RuleMatches(i, action, tableMeta)}) >= 2
  /\ prediction.Description = "DROP COLUMN (STORED generated)"

RiskRank(r) ==
  CASE r = "LOW" -> 1 [] r = "MEDIUM" -> 2 [] r = "HIGH" -> 3 [] r = "CRITICAL" -> 4

\* C6: for every action, the risk tier predicted without a snapshot is at
\* least as severe as the one predicted with any InnoDB snapshot.
C6_AbsentMetaAtLeastAsSevere ==
  (/\ Predicted
   /\ tableMeta.present
   /\ ToUpper(tableMeta.Engine) = ToUpper(StrInnoDB)
   /\ ~prediction.panicked) =>
    RiskRank(Predict(action, NilMeta).RiskLevel) >= RiskRank(prediction.RiskLevel)

(***************************************************************************)
(* Properties of Resolve.                                                  *)
(***************************************************************************)
RootKey == qualifiedName(root.Schema, root.Table)

RootLookup == ProviderGetTableMeta(provider, root.Schema, root.Table)

\* Resolve went past its early returns
Traversing == rpc \in {"resolving", "returned"} /\ rootMeta # NilMeta

\* schema and table of the table a constraint leads to in a direction
NamedTable(cfg, fk) ==
  IF cfg = parentConfig
  THEN [Schema |-> fk.ReferencedSchema, Table |-> fk.ReferencedTable]
  ELSE [Schema |-> fk.SourceSchema, Table |-> fk.SourceTable]

\* the provider's answer for that table
NamedLookup(cfg, fk) ==
  ProviderGetTableMeta(provider, NamedTable(cfg, fk).Schema, NamedTable(cfg, fk).Table)

\* the lookup issued for the constraint's key asks for the table it names
LookupReachesNamedTable(cfg, fk) ==
  splitQualifiedName(tableKey(cfg, fk))
    = <<NamedTable(cfg, fk).Schema, NamedTable(cfg, fk).Table>>

HasCircularWarning ==
  \E i \in 1..Len(graph.Warnings) : HasPrefix(graph.Warnings[i], CircularPrefix)

\* C7: with fkChecks off, or when the lookup of the target table fails,
\* Resolve returns a graph without parents, children or warnings, and no
\* error, whatever constraints exist and whatever the actions are.
C7_EmptyGraphWhenSkipped ==
  (Returned /\ (~fkChecks \/ RootLookup.err)) =>
    /\ graph.Parents = <<>>
    /\ graph.Children = <<>>
    /\ graph.Warnings = <<>>
    /\ resolveErr = "nil"

\* fkChecks is off, the table has constraints in both directions and the
\* statement has actions
C7_Witness ==
  /\ Returned
  /\ ~fkChecks
  /\ ~RootLookup.err
  /\ RootLookup.meta.ForeignKeys # <<>>
  /\ RootLookup.meta.ReferencedBy # <<>>
  /\ actions # <<>>
  /\ TotalAffectedTables(graph) = 0

\* the root references another table whose metadata references the root
MutualReference ==
  /\ ~RootLookup.err
  /\ \E i \in 1..Len(RootLookup.meta.ForeignKeys) :
       LET fk == RootLookup.meta.ForeignKeys[i]
           other == NamedLookup(parentConfig, fk)
       IN  /\ NamedTable(parentConfig, fk) # root
           /\ ~other.err
           /\ \E j \in 1..Len(other.meta.ForeignKeys) :
                NamedTable(parentConfig, other.meta.ForeignKeys[j]) = root

\* the same, and the lookup for the other table's key asks for that table
MutualReferenceLookedUp ==
  /\ ~RootLookup.err
  /\ \E i \in 1..Len(RootLookup.meta.ForeignKeys) :
       LET fk == RootLookup.meta.ForeignKeys[i]
           other == NamedLookup(parentConfig, fk)
       IN  /\ NamedTable(parentConfig, fk) # root
           /\ LookupReachesNamedTable(parentConfig, fk)
           /\ ~other.err
           /\ \E j \in 1..Len(other.meta.ForeignKeys) :
                NamedTable(parentConfig, other.meta.ForeignKeys[j]) = root

C9_ResolveTerminates ==
  /\ [](deepest <= maxDepth + 1 /\ Len(stack) <= maxDepth + 1)
  /\ ((rpc = "resolving") ~> Returned)

\* a call that returned after meeting a cycle, with edges in both directions
\* and calls cut at depth maxDepth + 1
C9_Witness ==
  /\ Returned
  /\ maxDepth >= 1
  /\ deepest = maxDepth + 1
  /\ HasCircularWarning
  /\ graph.Parents # <<>>
  /\ graph.Children # <<>>

NotAChain == [ok |-> FALSE, keys |-> <<>>]

\* the keys of the tables along the constraints fks leads to, when they form
\* a linear chain in direction cfg: one constraint per table, every table
\* looked up successfully under its own name, no table met twice
RECURSIVE ChainFrom(_, _, _)
ChainFrom(fks, cfg, seen) ==
  IF fks = <<>> THEN [ok |-> TRUE, keys |-> <<>>]
  ELSE IF Len(fks) # 1 THEN NotAChain
  ELSE LET fk == fks[1]
           key == tableKey(cfg, fk)
           named == NamedLookup(cfg, fk)
       IN  IF key \in seen \/ named.err \/ ~LookupReachesNamedTable(cfg, fk)
           THEN NotAChain
           ELSE LET rest == ChainFrom(nextFKs(cfg, named.meta), cfg, seen \cup {key})
                IN  [ok |-> rest.ok, keys |-> <<key>> \o rest.keys]

ParentChain == ChainFrom(rootMeta.ForeignKeys, parentConfig, {RootKey})

ChildChain == ChainFrom(rootMeta.ReferencedBy, childConfig, {RootKey})

Min(a, b) == IF a <= b THEN a ELSE b

\* edges holds the first min(N, maxDepth) tables of the chain, in order,
\* at depths 1, 2, ...
ChainRecorded(edges, keys) ==
  /\ Len(edges) = Min(Len(keys), maxDepth)
  /\ \A i \in 1..Len(edges) : edges[i].Depth = i /\ edges[i].Table = keys[i]

AllLookupsSucceed ==
  \A t \in TableIds : ~ProviderGetTableMeta(provider, t.Schema, t.Table).err

\* the tables the constraints of the tables in from lead to, in direction cfg
LinkedTables(cfg, from) ==
  UNION {LET lookup == ProviderGetTableMeta(provider, t.Schema, t.Table)
         IN  IF lookup.err THEN {}
             ELSE {NamedTable(cfg, nextFKs(cfg, lookup.meta)[i]) :
                     i \in 1..Len(nextFKs(cfg, lookup.meta))} :
           t \in from}

\* the tables reachable from the tables in from by a chain of 1..n
\* constraints in direction cfg
RECURSIVE ReachableWithin(_, _, _)
ReachableWithin(cfg, from, n) ==
  IF n <= 0 THEN {}
  ELSE LinkedTables(cfg, from) \cup ReachableWithin(cfg, LinkedTables(cfg, from), n - 1)

EdgeTables(edges) == {edges[i].Table : i \in 1..Len(edges)}

ConstraintNamesSplitBack ==
  \A tm \in provider :
    /\ \A i \in 1..Len(tm.ForeignKeys) :
         LookupReachesNamedTable(parentConfig, tm.ForeignKeys[i])
    /\ \A i \in 1..Len(tm.ReferencedBy) :
         LookupReachesNamedTable(childConfig, tm.ReferencedBy[i])

ImpactCalled == call.fn = "DetermineLockImpact"

\* the existing column an action is applied to: CHANGE COLUMN and RENAME
\* COLUMN name it in OldColumnName
TargetColumn(a) ==
  IF a.Type \in {"CHANGE_COLUMN", "RENAME_COLUMN"} THEN a.OldColumnName
  ELSE a.ColumnName

FKColumnSet(fk) ==
  {fk.SourceColumns[i] : i \in 1..Len(fk.SourceColumns)}
    \cup {fk.ReferencedColumns[i] : i \in 1..Len(fk.ReferencedColumns)}

\* a drop, or a modify or change that may change the type, of a column named
\* in the constraint
TargetsFKColumn(a, fk) ==
  /\ a.Type \in {"DROP_COLUMN", "MODIFY_COLUMN", "CHANGE_COLUMN"}
  /\ TargetColumn(a) \in FKColumnSet(fk)

\* C12: for every constraint and action list, if some action drops, or
\* modifies or changes with a new type, a column that is a member of the
\* constraint's source or referenced columns, DetermineLockImpact returns an
\* EXCLUSIVE impact with MetadataLock set and a reason naming the operation.
C12_FKColumnActionIsExclusive ==
  (/\ ImpactCalled
   /\ call.direction \in {FKDirectionParent, FKDirectionChild}
   /\ \E i \in 1..Len(call.actions) : TargetsFKColumn(call.actions[i], call.fk)) =>
    /\ result.LockLevel = LockExclusive
    /\ result.MetadataLock
    /\ result.Reason \in {ReasonDropColumn, ReasonTypeChange}

\* C13: for every constraint, in the parent and in the child direction, if
\* no action drops, modifies or changes a column that is a member of the
\* constraint's source or referenced columns, DetermineLockImpact returns a
\* SHARED metadata lock whose reason names the constraint's source and
\* referenced columns.
C13_DefaultImpactIsShared ==
  (/\ ImpactCalled
   /\ call.direction \in {FKDirectionParent, FKDirectionChild}
   /\ \A i \in 1..Len(call.actions) : ~TargetsFKColumn(call.actions[i], call.fk)) =>
    /\ result.MetadataLock
    /\ result.LockLevel = LockShared
    /\ \A col \in FKColumnSet(call.fk) : Contains(result.Reason, col)

\* the resolveDirection call the innermost loop makes next
NextCallKey == tableKey(stack[Len(stack)].cfg, Head(stack[Len(stack)].fks))

\* that call passes the depth and visited tests and its lookup fails
NextCallLookupFails ==
  /\ rpc = "resolving"
  /\ stack # <<>>
  /\ stack[Len(stack)].fks # <<>>
  /\ stack[Len(stack)].depth <= maxDepth
  /\ NextCallKey \notin visited
  /\ ProviderGetTableMeta(provider, splitQualifiedName(NextCallKey)[1],
                          splitQualifiedName(NextCallKey)[2]).err

\* the edges of the graph in the direction of the innermost loop
DirectionEdges(g, cfg) == IF cfg = parentConfig THEN g.Parents ELSE g.Children

\* the lookup of this edge's table fails
EdgeLookupFails(edge) ==
  ProviderGetTableMeta(provider, splitQualifiedName(edge.Table)[1],
                       splitQualifiedName(edge.Table)[2]).err

\* no edge of the list lies beyond an edge whose lookup failed
NoEdgeBeyondFailedLookup(edges) ==
  \A i \in 1..(Len(edges) - 1) :
    EdgeLookupFails(edges[i]) => edges[i + 1].Depth <= edges[i].Depth

\* C14: when the lookup of a linked table T fails, the edge to T is still
\* recorded, no edge beyond T is recorded on that branch, no warning and no
\* error are produced, and the remaining sibling constraints and the other
\* direction are still processed.
C14_FailedLookupTruncatesBranch ==
  /\ [][NextCallLookupFails =>
          LET top == stack[Len(stack)]
          IN  /\ DirectionEdges(graph', top.cfg)
                   = Append(DirectionEdges(graph, top.cfg),
                            DirectionEdges(graph', top.cfg)[Len(DirectionEdges(graph', top.cfg))])
              /\ DirectionEdges(graph', top.cfg)[Len(DirectionEdges(graph', top.cfg))].Table
                   = NextCallKey
              /\ graph'.Warnings = graph.Warnings
              /\ stack' = [stack EXCEPT ![Len(stack)].fks = Tail(@)]
              /\ rpc' = "resolving"
              /\ resolveErr' = resolveErr]_vars
  /\ [](Traversing =>
          /\ NoEdgeBeyondFailedLookup(graph.Parents)
          /\ NoEdgeBeyondFailedLookup(graph.Children)
          /\ resolveErr \in {"", "nil"})

\* the lookup of the only parent failed; its edge is in the graph, the child
\* direction was processed after it, and there is no warning
C14_Witness ==
  /\ Returned
  /\ Traversing
  /\ Len(graph.Parents) = 1
  /\ EdgeLookupFails(graph.Parents[1])
  /\ Len(rootMeta.ForeignKeys) = 1
  /\ Len(graph.Children) >= 1
  /\ graph.Warnings = <<>>
  /\ resolveErr = "nil"

\* the keys of the tables a list of constraints leads to in a direction
LinkedKeys(cfg, fks) == {tableKey(cfg, fks[i]) : i \in 1..Len(fks)}

\* the table with this key has no constraint to follow in the direction
NoFurtherFKs(cfg, key) ==
  LET lookup == ProviderGetTableMeta(provider, splitQualifiedName(key)[1],
                                     splitQualifiedName(key)[2])
  IN  lookup.err \/ nextFKs(cfg, lookup.meta) = <<>>

\* the root has k outbound constraints to k tables and m inbound ones from m
\* tables, the k + m tables differ from each other and from the root, and
\* none of them has a further constraint
DirectLinksOnly ==
  LET out == rootMeta.ForeignKeys
      in == rootMeta.ReferencedBy
  IN  /\ Cardinality(LinkedKeys(parentConfig, out)) = Len(out)
      /\ Cardinality(LinkedKeys(childConfig, in)) = Len(in)
      /\ LinkedKeys(parentConfig, out) \cap LinkedKeys(childConfig, in) = {}
      /\ RootKey \notin LinkedKeys(parentConfig, out) \cup LinkedKeys(childConfig, in)
      /\ \A key \in LinkedKeys(parentConfig, out) : NoFurtherFKs(parentConfig, key)
      /\ \A key \in LinkedKeys(childConfig, in) : NoFurtherFKs(childConfig, key)

\* no action is about a column of a constraint of the root
NoActionTouchesFKColumn ==
  \A i \in 1..Len(actions) :
    \A fk \in {rootMeta.ForeignKeys[j] : j \in 1..Len(rootMeta.ForeignKeys)}
                \cup {rootMeta.ReferencedBy[j] : j \in 1..Len(rootMeta.ReferencedBy)} :
      TargetColumn(actions[i]) \notin FKColumnSet(fk)

\* C15: for a root with k outbound and m inbound constraints to k + m tables
\* that differ from each other and from the root and have no further
\* constraint, and actions that touch no constraint column, Resolve (with
\* fkChecks on and maxDepth >= 1) returns k parent edges and m child edges,
\* each at Depth 1 with a SHARED impact, TotalAffectedTables = k + m and no
\* warning.
C15_DirectLinksAreSharedEdges ==
  (/\ Returned
   /\ fkChecks
   /\ maxDepth >= 1
   /\ rootMeta # NilMeta
   /\ DirectLinksOnly
   /\ NoActionTouchesFKColumn) =>
    /\ Len(graph.Parents) = Len(rootMeta.ForeignKeys)
    /\ Len(graph.Children) = Len(rootMeta.ReferencedBy)
    /\ \A i \in 1..Len(AllRelations(graph)) :
         /\ AllRelations(graph)[i].Depth = 1
         /\ AllRelations(graph)[i].LockImpact.LockLevel = LockShared
    /\ TotalAffectedTables(graph) = Len(rootMeta.ForeignKeys) + Len(rootMeta.ReferencedBy)
    /\ graph.Warnings = <<>>

SplitCalled == call.fn = "splitQualifiedName"

HasDot(name) == \E i \in 1..Len(name) : name[i] = "."

\* C16: splitQualifiedName treats only the first '.' as significant: for a
\* name with a '.', it returns the text before the first '.' (which holds no
\* '.') and all the text after it, further '.' included; for a name without
\* '.', it returns the empty schema and the name.
C16_SplitAtFirstDot ==
  SplitCalled =>
    IF HasDot(call.name)
    THEN /\ ~HasDot(result[1])
         /\ result[1] \o <<".">> \o result[2] = call.name
    ELSE result = << <<>>, call.name >>

\* a name with two '.' was split, and the second '.' stayed in the table
C16_Witness ==
  /\ SplitCalled
  /\ call.name = <<"a", ".", "b", ".">>
  /\ result = << <<"a">>, <<"b", ".">> >>

\* C17: Resolve keeps no state between calls: a call with the arguments of
\* the call before it on the same Resolver returns an equal graph (same edges
\* in the same order, same warnings, same error), and a call starts with a
\* visited map that holds the key of its own root and nothing else.
C17_NoHiddenState ==
  /\ []((Returned /\ previous.called
           /\ previous.root = root /\ previous.actions = actions) =>
          (graph = previous.graph /\ resolveErr = previous.resolveErr))
  /\ [][(rpc' = "resolving" /\ rpc # "resolving") => visited' = {RootKey'}]_vars

\* a call that recorded edges and a warning was repeated with the same
\* arguments and has returned
C17_Witness ==
  /\ Returned
  /\ previous.called
  /\ previous.root = root
  /\ previous.actions = actions
  /\ Len(previous.graph.Parents) >= 1
  /\ Len(previous.graph.Children) >= 1
  /\ previous.graph.Warnings # <<>>
  /\ graph = previous.graph

\* an ADD COLUMN that is neither auto-increment nor generated, and is
\* nullable, or of unset nullability, or given a default
PlainAddColumn(a) ==
  /\ a.Type = "ADD_COLUMN"
  /\ ~a.IsAutoIncrement
  /\ a.GeneratedType = ""
  /\ (a.IsNullable \in {"unset", "true"} \/ a.DefaultValue # <<>>)

\* C18: every ADD COLUMN that is neither auto-increment nor generated, and
\* is nullable (or of unset nullability) or given a default, whatever its
\* position hint, with the snapshot absent or InnoDB, gets INSTANT, NONE, no
\* rebuild, LOW.
C18_PlainAddColumnIsInstant ==
  (Predicted /\ PlainAddColumn(action) /\ EngineAbsentOrInnoDB(tableMeta)) =>
    /\ ~prediction.panicked
    /\ prediction.Algorithm = "INSTANT"
    /\ prediction.Lock = "NONE"
    /\ prediction.TableRebuild = FALSE
    /\ prediction.RiskLevel = "LOW"

\* a NOT NULL column with a default, added after a column of an InnoDB table
C18_Witness ==
  /\ Predicted
  /\ PlainAddColumn(action)
  /\ action.IsNullable = "false"
  /\ action.Position = "AFTER c"
  /\ tableMeta.present
  /\ tableMeta.Engine = StrInnoDB
  /\ prediction.Algorithm = "INSTANT"

\* an ADD COLUMN of a VIRTUAL generated column to a partitioned InnoDB table
VirtualOnPartitioned ==
  /\ Predicted
  /\ action.Type = "ADD_COLUMN"
  /\ action.GeneratedType = "VIRTUAL"
  /\ tableMeta.present
  /\ ToUpper(tableMeta.Engine) = ToUpper(StrInnoDB)
  /\ tableMeta.IsPartitioned

ModifiedColumn == findColumn(tableMeta, action.ColumnName)

\* a MODIFY COLUMN that changes the declared type of a column present in an
\* InnoDB snapshot
ModifiesType ==
  /\ Predicted
  /\ action.Type = "MODIFY_COLUMN"
  /\ tableMeta.present
  /\ ToUpper(tableMeta.Engine) = ToUpper(StrInnoDB)
  /\ ModifiedColumn.found
  /\ ~EqualFold(ModifiedColumn.ColumnType, action.ColumnType)

\* a VARCHAR that grows and stays on its side of the 255/256 boundary
VarcharGrowthSameSide(oldType, newType) ==
  LET oldLen == extractVarcharLength(oldType)
      newLen == extractVarcharLength(newType)
  IN  /\ oldLen > 0
      /\ newLen > oldLen
      /\ (newLen <= 255 \/ oldLen >= 256)

\* an ENUM or SET whose new value list is the old one with values appended
TailAppend(oldType, newType) ==
  LET old == ToUpper(oldType)
      new == ToUpper(newType)
  IN  /\ \/ HasPrefix(old, StrENUM) /\ HasPrefix(new, StrENUM)
         \/ HasPrefix(old, StrSET) /\ HasPrefix(new, StrSET)
      /\ Len(old) >= 1
      /\ old[Len(old)] = ")"
      /\ Len(new) > Len(old)
      /\ SubSeq(new, 1, Len(old) - 1) = SubSeq(old, 1, Len(old) - 1)
      /\ new[Len(old)] = ","

\* C20: a MODIFY COLUMN that changes the declared type of a column present
\* in an InnoDB snapshot gets TableRebuild = false only for a VARCHAR growth
\* on one side of the 255/256 boundary or an ENUM/SET change that appends
\* values at the tail; every other type change, a VARCHAR growth across the
\* boundary included, gets COPY, SHARED, rebuild, CRITICAL.
C20_TypeChangeNeedsCopy ==
  ModifiesType =>
    /\ ~prediction.panicked
    /\ \/ VarcharGrowthSameSide(ModifiedColumn.ColumnType, action.ColumnType)
       \/ TailAppend(ModifiedColumn.ColumnType, action.ColumnType)
       \/ /\ prediction.Algorithm = "COPY"
          /\ prediction.Lock = "SHARED"
          /\ prediction.TableRebuild
          /\ prediction.RiskLevel = "CRITICAL"

\* C21: every ADD FOREIGN KEY (snapshot absent or InnoDB) gets COPY with a
\* SHARED lock when the fk-checks flag is on, and INPLACE with no lock when
\* the flag is off.
C21_AddForeignKeyFollowsFKChecks ==
  (Predicted /\ action.Type = "ADD_FOREIGN_KEY" /\ EngineAbsentOrInnoDB(tableMeta)) =>
    /\ ~prediction.panicked
    /\ IF fkChecks
       THEN prediction.Algorithm = "COPY" /\ prediction.Lock = "SHARED"
       ELSE prediction.Algorithm = "INPLACE" /\ prediction.Lock = "NONE"

\* the index in the rule table of the last rule declared for kind k
LastRuleOf(k) ==
  CHOOSE i \in 1..Len(defaultRules) :
    /\ defaultRules[i].ActionType = k
    /\ \A j \in 1..Len(defaultRules) : defaultRules[j].ActionType = k => j <= i

\* an action of a kind with rules was predicted past the engine check
RuledKindPredicted ==
  /\ Predicted
  /\ action.Type \in RuledKinds
  /\ ~IsNonInnoDB(tableMeta)

\* some rule answered, not the unknown-operation fallback
AnsweredByRule ==
  /\ ~prediction.panicked
  /\ \E i \in 1..Len(defaultRules) : RuleMatches(i, action, tableMeta)
  /\ prediction.Description \in RuleDescriptions
  /\ prediction.Warnings # <<UnknownWarning>>

\* C22: for every kind with a rule, the last rule declared for the kind is
\* an unconditional catch-all, so every action of such a kind that passes the
\* engine check is answered by a rule and never by the unknown-operation
\* fallback.
C22_LastRuleIsCatchAll ==
  RuledKindPredicted =>
    /\ defaultRules[LastRuleOf(action.Type)].Condition = "alwaysMatch"
    /\ AnsweredByRule

\* the kinds whose rules cover every case without an unconditional last rule
CoveredWithoutCatchAll == {"ADD_COLUMN", "CHANGE_ENGINE"}

\* C22 amended: every action of a kind with a rule that passes the engine
\* check is answered by a rule and never by the unknown-operation fallback;
\* the last rule of the kind is an unconditional catch-all except for ADD
\* COLUMN and CHANGE ENGINE, whose last rule has a condition that holds
\* whenever the rules before it do not match.
C22_RulesCoverEveryRuledKind ==
  RuledKindPredicted =>
    /\ AnsweredByRule
    /\ (action.Type \notin CoveredWithoutCatchAll) <=>
         (defaultRules[LastRuleOf(action.Type)].Condition = "alwaysMatch")

\* a CHANGE ENGINE without snapshot answered by the last rule of its kind,
\* which is not a catch-all
C22_Witness ==
  /\ RuledKindPredicted
  /\ action.Type = "CHANGE_ENGINE"
  /\ ~tableMeta.present
  /\ prediction.Description = defaultRules[LastRuleOf("CHANGE_ENGINE")].Description
  /\ defaultRules[LastRuleOf("CHANGE_ENGINE")].Condition # "alwaysMatch"

\* a MODIFY COLUMN of a column present in an InnoDB snapshot that keeps the
\* declared type, case aside
ModifiesSameType ==
  /\ Predicted
  /\ action.Type = "MODIFY_COLUMN"
  /\ tableMeta.present
  /\ ToUpper(tableMeta.Engine) = ToUpper(StrInnoDB)
  /\ ModifiedColumn.found
  /\ EqualFold(ModifiedColumn.ColumnType, action.ColumnType)

\* C23: every MODIFY COLUMN whose column exists in an InnoDB snapshot with a
\* declared type equal, case aside, to the action's gets TableRebuild = true,
\* and INPLACE unless the generated-column reorder rule answers with COPY,
\* whatever the type family of the column.
C23_SameTypeModifyRebuilds ==
  ModifiesSameType =>
    /\ ~prediction.panicked
    /\ prediction.TableRebuild
    /\ \/ prediction.Algorithm = "INPLACE"
       \/ prediction.Description = "MODIFY COLUMN (generated column reorder)"

RootLinks ==
  {[fk |-> rootMeta.ForeignKeys[i], key |-> tableKey(parentConfig, rootMeta.ForeignKeys[i])] :
     i \in 1..Len(rootMeta.ForeignKeys)}
  \cup
  {[fk |-> rootMeta.ReferencedBy[i], key |-> tableKey(childConfig, rootMeta.ReferencedBy[i])] :
     i \in 1..Len(rootMeta.ReferencedBy)}

\* Resolve returned after traversing with room for Depth 1
ReturnedTraversal ==
  /\ Returned
  /\ fkChecks
  /\ maxDepth >= 1
  /\ rootMeta # NilMeta

\* the graph has an edge to the table with an EXCLUSIVE impact
RecordsExclusive(key) ==
  \E i \in 1..Len(AllRelations(graph)) :
    /\ AllRelations(graph)[i].Table = key
    /\ AllRelations(graph)[i].LockImpact.LockLevel = LockExclusive

\* C25: for every table linked to the root at Depth 1, if some constraint
\* between the root and that table, outbound or inbound, however many there
\* are and in whatever order, has a column that some action drops, modifies
\* or changes, the returned graph records an EXCLUSIVE impact for the table.
C25_TouchedLinkIsExclusive ==
  ReturnedTraversal =>
    \A link \in RootLinks :
      (/\ link.key # RootKey
       /\ \E i \in 1..Len(actions) : TargetsFKColumn(actions[i], link.fk)) =>
        RecordsExclusive(link.key)

\* the columns of the edge's constraint that are columns of the root table:
\* none when the constraint links two other tables
RootSideColumns(edge) ==
  IF /\ edge.Direction = FKDirectionParent
     /\ edge.Constraint.SourceSchema = root.Schema
     /\ edge.Constraint.SourceTable = root.Table
  THEN {edge.Constraint.SourceColumns[i] : i \in 1..Len(edge.Constraint.SourceColumns)}
  ELSE IF /\ edge.Direction = FKDirectionChild
          /\ edge.Constraint.ReferencedSchema = root.Schema
          /\ edge.Constraint.ReferencedTable = root.Table
  THEN {edge.Constraint.ReferencedColumns[i] : i \in 1..Len(edge.Constraint.ReferencedColumns)}
  ELSE {}

\* the kinds of action DetermineLockImpact looks at
ImpactKinds == {"DROP_COLUMN", "MODIFY_COLUMN", "CHANGE_COLUMN"}

\* C26: an edge is EXCLUSIVE only when an action drops or modifies a column
\* of the root table that takes part in the edge's constraint; an edge whose
\* constraint links two other tables, or whose matching column name is on
\* the other table's side, is never EXCLUSIVE.
C26_ExclusiveOnlyForRootColumns ==
  ReturnedTraversal =>
    \A i \in 1..Len(AllRelations(graph)) :
      LET edge == AllRelations(graph)[i]
      IN  edge.LockImpact.LockLevel = LockExclusive =>
            \E j \in 1..Len(actions) :
              /\ actions[j].Type \in ImpactKinds
              /\ \/ TargetColumn(actions[j]) \in RootSideColumns(edge)
                 \/ actions[j].ColumnName \in RootSideColumns(edge)

\* the table lies on a cycle of constraints, followed in either direction
OnCycle(t) ==
  \/ t \in ReachableWithin(parentConfig, {t}, Cardinality(TableIds))
  \/ t \in ReachableWithin(childConfig, {t}, Cardinality(TableIds))

\* C27: every circular-reference warning of the returned graph reports a
\* table that lies on a cycle of constraints; two constraints from the root
\* to one table, a diamond, or a table that is a parent and a child of the
\* root without a cycle, give no warning (table names that split back to
\* themselves are granted).
C27_WarningsReportCycles ==
  (Returned /\ Traversing /\ ConstraintNamesSplitBack) =>
    \A i \in 1..Len(graph.Warnings) :
      \E t \in TableIds :
        /\ graph.Warnings[i] = CircularWarning(qualifiedName(t.Schema, t.Table))
        /\ OnCycle(t)

\* C28: in the graph of a Resolve call, while it is built and when it is
\* returned, each table identity is the table of at most one edge of the
\* parent and child lists together, and the root is the table of no edge.
C28_OneEdgePerTable ==
  (rpc \in {"resolving", "returned"}) =>
    /\ \A i, j \in 1..Len(AllRelations(graph)) :
         i # j => AllRelations(graph)[i].Table # AllRelations(graph)[j].Table
    /\ \A i \in 1..Len(AllRelations(graph)) :
         /\ AllRelations(graph)[i].Table # graph.Root
         /\ AllRelations(graph)[i].Table # RootKey

\* a returned graph with a parent and a child, in which a constraint leading
\* back to a recorded table or to the root was skipped with a warning
C28_Witness ==
  /\ Returned
  /\ Traversing
  /\ Len(graph.Parents) >= 1
  /\ Len(graph.Children) >= 1
  /\ graph.Warnings # <<>>
  /\ Len(rootMeta.ForeignKeys) + Len(rootMeta.ReferencedBy) = 3

\* C29: every Prediction returned by Predict with TableRebuild = true has
\* the risk tier HIGH or CRITICAL, never LOW or MEDIUM.
C29_RebuildIsHighOrCritical ==
  (Predicted /\ ~prediction.panicked /\ prediction.TableRebuild) =>
    prediction.RiskLevel \in {RiskHigh, RiskCritical}

\* C29, amended: a Prediction with TableRebuild = true is HIGH or CRITICAL
\* unless its algorithm is INSTANT; the only INSTANT answer that rebuilds is
\* the plain DROP COLUMN rule, and it is LOW.
C29_RebuildIsHighOrCriticalUnlessInstant ==
  (Predicted /\ ~prediction.panicked /\ prediction.TableRebuild) =>
    IF prediction.Algorithm = AlgorithmInstant
    THEN /\ prediction.Description = "DROP COLUMN"
         /\ prediction.ActionType = "DROP_COLUMN"
         /\ prediction.RiskLevel = RiskLow
    ELSE prediction.RiskLevel \in {RiskHigh, RiskCritical}

\* a plain column dropped from an InnoDB table: INSTANT, rebuild, LOW
C29_Witness ==
  /\ Predicted
  /\ ~prediction.panicked
  /\ tableMeta.present
  /\ action.Type = "DROP_COLUMN"
  /\ prediction.Description = "DROP COLUMN"
  /\ prediction.TableRebuild
  /\ prediction.Lock = LockNone
  /\ prediction.RiskLevel = RiskLow

QualifiedNameCalled == call.fn = "qualifiedName"

\* C30: the table identity round-trips: for every schema and table, the
\* empty schema and names with a '.' included, splitting the qualified name
\* gives the schema and the table back, so the lookup issued for the key uses
\* the schema and table the constraint names.
C30_QualifiedNameRoundTrips ==
  QualifiedNameCalled =>
    splitQualifiedName(result) = <<call.schema, call.table>>
====
